---- MODULE Spec2Model ----
(***************************************************************************)
(* ScriptToScene: the generation-orchestration core.                       *)
(*   services/geminiService.ts  callApiWithRetry, parseScriptToScenes,     *)
(*                              extractCharactersFromScript,               *)
(*                              generateImageForPrompt,                    *)
(*                              generateVideoForScene                      *)
(*   App.tsx                    handleAnalyzeScript, handleUpdateCharacter *)
(*   components/SceneCard.tsx   the per-scene frame and video workflow     *)
(*   components/CharacterCard.tsx   portrait generation and upload         *)
(*   components/Timeline.tsx    one SceneCard per scene                    *)
(*                                                                         *)
(* Twelve specifications share the definitions of this module:             *)
(*   SpecRetry    one run of callApiWithRetry over any operation           *)
(*   SpecAnalyze  the App's script analysis (two concurrent extractions)   *)
(*   SpecScene    one scene card's frame generation                        *)
(*   SpecVideo    one scene card's video generation                        *)
(*   SpecRegen    single-frame regeneration after a video                  *)
(*   SpecPrompt   the prompts a scene card derives, over scenes and catalogs *)
(*   SpecPortrait the character sheet: portraits generated and uploaded,   *)
(*                across a second analysis                                 *)
(*   SpecTimeline the scene cards of two scenes side by side               *)
(*   SpecVideoLive  SpecVideo with calls and timers that eventually settle *)
(*   SpecPage     the character sheet and one scene card on one page       *)
(*   SpecCast     the scene card over a catalog with names equal but for case *)
(*   SpecEdit     the scene card's prompts under edits and resets          *)
(* A JavaScript task (an event handler, or the continuation of an await    *)
(* together with the microtasks it chains) runs to completion, so each     *)
(* action below is one such task.                                          *)
(***************************************************************************)
EXTENDS Integers, Sequences, FiniteSets, TLC

VARIABLES
    \* ---- callApiWithRetry, one run (SpecRetry)
    maxRetries,      \* parameter maxRetries
    initialDelay,    \* parameter initialDelay (ms)
    wr,              \* the run's state (see WInit)
    \* ---- App (SpecAnalyze)
    script,          \* useState script
    scenes,          \* useState scenes
    characters,      \* useState characters (also the scene card's prop)
    selectedStyle,   \* useState selectedStyle (also the scene card's prop)
    isLoading,       \* useState isLoading
    appError,        \* useState error of App
    run,             \* number of analysis runs started so far
    tasks,           \* tasks[k]: extraction k of the latest run (a promise and its wrapper)
    joined,          \* the Promise.all of the latest run has settled
    stale,           \* extractions of earlier runs that are still in flight
    \* ---- SceneCard (SpecScene)
    card,            \* the card's useState values
    op,              \* the frame generation in flight, with what its closures captured
    sent,            \* remote image requests issued since the last click, per frame
    video,           \* the card's run of generateVideoForScene (SpecVideo)
    \* ---- CharacterSheet (SpecPortrait)
    sheet,           \* the useState values of the mounted CharacterCards, in catalog order
    portraits,       \* the portrait generations and file reads in flight, in start order
    plog,            \* the portrait calls started so far and the last catalog update
    \* ---- Timeline (SpecTimeline)
    other            \* the SceneCard of the second scene: its card, op and video

vars == <<maxRetries, initialDelay, wr, script, scenes, characters, selectedStyle,
          isLoading, appError, run, tasks, joined, stale, card, op, sent, video,
          sheet, portraits, plog, other>>

retryVars == <<maxRetries, initialDelay, wr>>
appVars == <<script, scenes, isLoading, appError, run, tasks, joined, stale>>
sharedVars == <<characters, selectedStyle>>
sceneVars == <<card, op, sent, video>>
sheetVars == <<sheet, portraits, plog>>

-----------------------------------------------------------------------------
(* Bounds of the model. *)

\* callApiWithRetry is explored for maxRetries in 1..MaxRetriesBound
MaxRetriesBound == 5
\* analysis runs explored per behaviour
MaxRuns == 2

(* Program constants. *)

\* default of parameter maxRetries
DefaultMaxRetries == 5
\* default of parameter initialDelay
DefaultInitialDelay == 1000
\* Math.random() * 1000: the jitter lies in [0, JitterRange)
JitterRange == 1000
\* errorBody?.error?.code === 429
RateLimitCode == 429

\* the jitter values explored: both ends of [0, JitterRange) and one inside
Jitters == {0, 500, JitterRange - 1}
\* the jitter value explored where callApiWithRetry runs inside a component
SomeJitter == {500}
\* the initialDelay values explored
InitialDelays == {1, DefaultInitialDelay}

-----------------------------------------------------------------------------
(* Thrown values.  A message is known by its text (raw) and by what         *)
(* JSON.parse makes of that text: parses says whether it is JSON, kind the  *)
(* parsed value's kind, and for an object: whether it has an `error`        *)
(* member and that member's status, code and message ("" and 0: absent).    *)

Msg(raw, parses, kind, hasError, status, code, emsg) ==
    [raw |-> raw, parses |-> parses, kind |-> kind, hasError |-> hasError,
     status |-> status, code |-> code, emsg |-> emsg]

MsgQuota      == Msg("quota", TRUE, "object", TRUE, "RESOURCE_EXHAUSTED", RateLimitCode, "Quota exceeded")
MsgStatusOnly == Msg("statusOnly", TRUE, "object", TRUE, "RESOURCE_EXHAUSTED", 0, "Exhausted")
MsgCodeOnly   == Msg("codeOnly", TRUE, "object", TRUE, "", RateLimitCode, "Too many requests")
MsgInternal   == Msg("internal", TRUE, "object", TRUE, "INTERNAL", 500, "Internal error")
MsgNoDetail   == Msg("noDetail", TRUE, "object", TRUE, "", 0, "")
MsgNoError    == Msg("noError", TRUE, "object", FALSE, "", 0, "")
MsgNull       == Msg("null", TRUE, "null", FALSE, "", 0, "")
MsgPlain      == Msg("network down", FALSE, "none", FALSE, "", 0, "")
MsgNone       == Msg("", FALSE, "none", FALSE, "", 0, "")

\* a thrown value: an Error (or not) with its message; seq tells the throws apart
Thrown(isError, message, seq) == [isError |-> isError, message |-> message, seq |-> seq]
NoError == Thrown(FALSE, MsgNone, 0)

\* what a remote call can throw: Errors with each message, and a value that is
\* no Error although it carries the rate-limit payload
Throwables ==
    { [isError |-> TRUE, message |-> m] :
        m \in {MsgQuota, MsgStatusOnly, MsgCodeOnly, MsgInternal, MsgNoDetail,
               MsgNoError, MsgNull, MsgPlain} }
    \cup { [isError |-> FALSE, message |-> MsgQuota] }

\* JSON.parse(text): throws unless the text is JSON
JSONparse(m) == [threw |-> ~m.parses, value |-> m]

\* the mutants of IsRateLimitError
IsRateLimitErrorBothNeeded(error) ==
    /\ error.isError
    /\ ~JSONparse(error.message).threw
    /\ LET errorBody == JSONparse(error.message).value
       IN /\ errorBody.kind = "object"
          /\ errorBody.hasError
          /\ errorBody.status = "RESOURCE_EXHAUSTED" /\ errorBody.code = RateLimitCode
IsRateLimitErrorAnyJson(error) ==
    /\ error.isError
    /\ ~JSONparse(error.message).threw

\* callApiWithRetry, the classification of a caught value
IsRateLimitError(error) ==
    /\ error.isError
    /\ ~JSONparse(error.message).threw
    /\ LET errorBody == JSONparse(error.message).value
       IN /\ errorBody.kind = "object"
          /\ errorBody.hasError
          /\ (errorBody.status = "RESOURCE_EXHAUSTED" \/ errorBody.code = RateLimitCode)

\* Math.pow(2, i)
RECURSIVE Pow2(_)
Pow2(i) == IF i = 0 THEN 1 ELSE 2 * Pow2(i - 1)

\* the mutant of BackoffBase: linear instead of exponential
BackoffBaseLinear(initDelay, i) == initDelay * (i + 1)

\* initialDelay * Math.pow(2, i), the jitter-free part of the delay
BackoffBase(initDelay, i) == initDelay * Pow2(i)

-----------------------------------------------------------------------------
(* callApiWithRetry.  A run's state:                                        *)
(*   pc        "call": about to invoke apiCall;  "wait": in the setTimeout; *)
(*             "returned" / "thrown": the run is over                       *)
(*   i         the loop variable                                            *)
(*   calls     invocations of apiCall so far                                *)
(*   waits     the jitter-free part of each delay waited so far, in order   *)
(*   delay     the delay being waited (pc = "wait")                         *)
(*   lastError the variable lastError                                       *)
(*   result    the value returned;  error: the value thrown                 *)

NoResult == "none"

WInit ==
    [pc |-> "call", i |-> 0, calls |-> 0, waits |-> <<>>, delay |-> 0,
     lastError |-> NoError, result |-> NoResult, error |-> NoError]

\* apiCall() resolved with value r: return it
WReturn(w, r) ==
    [w EXCEPT !.pc = "returned", !.calls = w.calls + 1, !.result = r]

\* the mutant of WCatch: rethrows the first failure instead of the last
WCatchKeepFirst(w, thrown, jitter, initDelay) ==
    LET error == Thrown(thrown.isError, thrown.message, w.calls + 1)
        w1 == [w EXCEPT !.calls = w.calls + 1,
                        !.lastError = IF w.calls = 0 THEN error ELSE w.lastError]
    IN IF IsRateLimitError(error)
       THEN [w1 EXCEPT !.pc = "wait",
                       !.delay = BackoffBase(initDelay, w.i) + jitter,
                       !.waits = Append(w.waits, BackoffBase(initDelay, w.i))]
       ELSE [w1 EXCEPT !.pc = "thrown", !.error = error]

\* apiCall() threw: the catch block
WCatch(w, thrown, jitter, initDelay) ==
    LET error == Thrown(thrown.isError, thrown.message, w.calls + 1)
        w1 == [w EXCEPT !.calls = w.calls + 1, !.lastError = error]
    IN IF IsRateLimitError(error)
       THEN [w1 EXCEPT !.pc = "wait",
                       !.delay = BackoffBase(initDelay, w.i) + jitter,
                       !.waits = Append(w.waits, BackoffBase(initDelay, w.i))]
       ELSE [w1 EXCEPT !.pc = "thrown", !.error = error]

\* the mutant of WWake: one attempt too few
WWakeOneLess(w, maxR) ==
    IF w.i + 2 < maxR
    THEN [w EXCEPT !.pc = "call", !.i = w.i + 1, !.delay = 0]
    ELSE [w EXCEPT !.pc = "thrown", !.i = w.i + 1, !.delay = 0, !.error = w.lastError]

\* the timer fired: i++, the loop test, and past the loop `throw lastError`
WWake(w, maxR) ==
    IF w.i + 1 < maxR
    THEN [w EXCEPT !.pc = "call", !.i = w.i + 1, !.delay = 0]
    ELSE [w EXCEPT !.pc = "thrown", !.i = w.i + 1, !.delay = 0, !.error = w.lastError]

WOver(w) == w.pc \in {"returned", "thrown"}

\* remote requests issued by the run so far: the settled ones and the one in flight
WIssued(w) == w.calls + (IF w.pc = "call" THEN 1 ELSE 0)

-----------------------------------------------------------------------------
(* Strings are sequences of atoms: a whitespace character or a run of other *)
(* characters.                                                              *)

IsSpace(a) == a \in {" ", "\n", "\t"}

\* String.prototype.trim
RECURSIVE TrimLeft(_)
TrimLeft(s) == IF s # <<>> /\ IsSpace(Head(s)) THEN TrimLeft(Tail(s)) ELSE s
RECURSIVE TrimRight(_)
TrimRight(s) ==
    IF s # <<>> /\ IsSpace(s[Len(s)]) THEN TrimRight(SubSeq(s, 1, Len(s) - 1)) ELSE s
Trim(s) == TrimRight(TrimLeft(s))

-----------------------------------------------------------------------------
(* The values the variables of the other components hold while one         *)
(* component is explored alone.                                             *)

EmptyArray == [isArray |-> TRUE, items |-> <<>>]
NoStyle == [id |-> "", promptModifier |-> <<>>]

IdleRetry ==
    /\ maxRetries = DefaultMaxRetries
    /\ initialDelay = DefaultInitialDelay
    /\ wr = WInit

IdleApp ==
    /\ script = <<>>
    /\ scenes = EmptyArray
    /\ isLoading = FALSE
    /\ appError = <<>>
    /\ run = 0
    /\ tasks = <<>>
    /\ joined = FALSE
    /\ stale = {}

IdleShared ==
    /\ characters = EmptyArray
    /\ selectedStyle = NoStyle

\* no run of generateVideoForScene: nothing submitted, polled, waited or fetched
NoJob ==
    [pc |-> "none", w |-> WInit, image |-> [imageBytes |-> <<>>, mimeType |-> <<>>],
     submitted |-> <<>>, answers |-> <<>>,
     statusCalls |-> 0, waits |-> 0, fetches |-> 0]

IdleScene ==
    /\ card = <<>>
    /\ op = <<>>
    /\ video = NoJob
    /\ sent = [click |-> "none", frames |-> {}, answer |-> [got |-> FALSE, parts |-> <<>>]]

\* no portrait call started, no catalog update made
NoUpdate == [name |-> <<>>, description |-> <<>>, imageUrl |-> <<>>]
NoLog == [started |-> <<>>, updates |-> 0, seq |-> 0, updatedCharacter |-> NoUpdate]

IdleSheet ==
    /\ sheet = <<>>
    /\ portraits = <<>>
    /\ plog = NoLog
    /\ other = <<>>

-----------------------------------------------------------------------------
(* The values of the App: scripts, scenes, characters, styles, and the      *)
(* text model's responses.                                                  *)

NoImage == <<>>

\* the scripts a user types: empty, whitespace only, and one with text
Scripts == { <<>>, <<" ", "\n", "\t">>, <<"\n", "INT.", " ", "CAFE", " ">> }

\* STYLES of constants.ts (two of the four; id and promptModifier)
STYLES ==
    << [id |-> "cinematic", promptModifier |-> <<"cinematic", " ", "film", " ", "still">>],
       [id |-> "anime", promptModifier |-> <<"90s", " ", "anime", " ", "aesthetic">>] >>

Range(f) == { f[x] : x \in DOMAIN f }

\* character names that differ in case only, and one that differs
NameAl == <<"A", "l">>
Nameal == <<"a", "l">>
NameBo == <<"B", "o">>

\* the records the text model returns for the r-th analysis: their texts name r
SceneOf(r) ==
    [scene_id |-> <<"S", ToString(r)>>, location |-> <<"Cafe">>, time |-> <<"Morning">>,
     mood |-> <<"Tense">>, characters |-> <<NameAl, NameBo>>,
     camera_movement |-> <<"Slow", " ", "dolly-in">>]
CharacterOf(r, name) ==
    [name |-> name, description |-> <<"look", ToString(r)>>, imageUrl |-> NoImage]

Kinds == {"scenes", "chars"}

\* response.text of the text model, by what JSON.parse makes of it: not JSON,
\* JSON that is no array, an empty array, an array of records
TextResponses(k, r) ==
    { [parses |-> FALSE, value |-> EmptyArray],
      [parses |-> TRUE, value |-> [isArray |-> FALSE, items |-> <<>>]],
      [parses |-> TRUE, value |-> EmptyArray],
      [parses |-> TRUE,
       value |-> [isArray |-> TRUE,
                  items |-> IF k = "scenes" THEN <<SceneOf(r)>>
                            ELSE <<CharacterOf(r, Nameal), CharacterOf(r, NameBo)>>]] }

\* what the remote text call throws in the analysis: Errors whose message is a
\* rate-limit payload, another payload, JSON without an error member, no JSON
AnalyzeThrowables ==
    { [isError |-> TRUE, message |-> m] :
        m \in {MsgQuota, MsgInternal, MsgNoError, MsgPlain} }

\* new Error("The AI returned an invalid JSON format for scenes." / "... characters.")
ParseError(k) ==
    Thrown(TRUE,
           Msg(IF k = "scenes" THEN "The AI returned an invalid JSON format for scenes."
               ELSE "The AI returned an invalid JSON format for characters.",
               FALSE, "none", FALSE, "", 0, ""),
           0)

\* getApiErrorMessage
GetApiErrorMessage(error) ==
    IF error.isError
    THEN IF JSONparse(error.message).threw
         THEN error.message.raw
         ELSE LET errorBody == JSONparse(error.message).value
              IN IF errorBody.kind = "null"
                 THEN error.message.raw   \* errorBody.error throws a TypeError, caught
                 ELSE IF errorBody.hasError /\ errorBody.emsg # ""
                      THEN errorBody.emsg
                      ELSE "An unexpected error occurred. Please try again."
    ELSE "An unexpected error occurred. Please try again."

\* a promise of an extraction with the callApiWithRetry run it awaits
Task(st, w, value, error) == [st |-> st, w |-> w, value |-> value, error |-> error]
IdleTask == Task("idle", WInit, EmptyArray, NoError)

\* the mutant of AfterResponse: a response that does not parse is asked for again
AfterResponseRetryParse(k, w) ==
    IF w.result.parses
    THEN Task("fulfilled", w, w.result.value, NoError)
    ELSE Task("pending", [w EXCEPT !.pc = "call"], EmptyArray, NoError)

\* parseScriptToScenes / extractCharactersFromScript once callApiWithRetry has
\* returned the response: JSON.parse(response.text.trim())
AfterResponse(k, w) ==
    IF w.result.parses
    THEN Task("fulfilled", w, w.result.value, NoError)
    ELSE Task("rejected", w, EmptyArray, ParseError(k))

\* the same once callApiWithRetry has caught a failure or its timer has fired
AfterRetryStep(w) ==
    IF w.pc = "thrown" THEN Task("rejected", w, EmptyArray, w.error)
    ELSE Task("pending", w, EmptyArray, NoError)

-----------------------------------------------------------------------------
(* SpecRetry: one run of callApiWithRetry(apiCall, maxRetries,              *)
(* initialDelay).  Each invocation of apiCall resolves with some result or  *)
(* throws some value; each delay draws some jitter.                         *)

Results == {"r1", "r2"}

InitRetry ==
    /\ maxRetries \in 1..MaxRetriesBound
    /\ initialDelay \in InitialDelays
    /\ wr = WInit
    /\ IdleApp /\ IdleShared /\ IdleScene /\ IdleSheet

\* `return await apiCall()` with apiCall resolving
RetryResolve ==
    /\ wr.pc = "call"
    /\ \E r \in Results : wr' = WReturn(wr, r)
    /\ UNCHANGED <<maxRetries, initialDelay, appVars, sharedVars, sceneVars, sheetVars, other>>

\* apiCall throwing: the catch block, up to the setTimeout or the rethrow
RetryCatch ==
    /\ wr.pc = "call"
    /\ \E t \in Throwables, j \in Jitters : wr' = WCatch(wr, t, j, initialDelay)
    /\ UNCHANGED <<maxRetries, initialDelay, appVars, sharedVars, sceneVars, sheetVars, other>>

\* the setTimeout of the backoff fires
RetryWake ==
    /\ wr.pc = "wait"
    /\ wr' = WWake(wr, maxRetries)
    /\ UNCHANGED <<maxRetries, initialDelay, appVars, sharedVars, sceneVars, sheetVars, other>>

NextRetry == RetryResolve \/ RetryCatch \/ RetryWake

SpecRetry == InitRetry /\ [][NextRetry]_vars

\* the rate-limit signature as the specification words it: an Error whose
\* message is a structured payload with status RESOURCE_EXHAUSTED or code 429
RateLimitSignature(e) ==
    /\ e.isError
    /\ e.message.parses /\ e.message.kind = "object" /\ e.message.hasError
    /\ (e.message.status = "RESOURCE_EXHAUSTED" \/ e.message.code = 429)

\* every invocation so far threw and was followed by a backoff wait
AllRateLimited(w) == Len(w.waits) = w.calls

\* C1: with maxRetries >= 1, when every invocation fails with a rate-limit
\* failure the operation is invoked exactly maxRetries times, never more, the run
\* is not over before that, and it then throws the failure of the last
\* invocation; a run that returns returns the result of its last invocation,
\* which is the only one that resolved, and is over.
C1_ExactlyMaxAttempts ==
    /\ wr.calls <= maxRetries
    /\ (AllRateLimited(wr) /\ wr.calls < maxRetries) => ~WOver(wr)
    /\ (wr.pc = "thrown" /\ AllRateLimited(wr)) =>
          /\ wr.calls = maxRetries
          /\ wr.error.seq = maxRetries
          /\ RateLimitSignature(wr.error)
    /\ wr.pc = "returned" =>
          /\ wr.result \in Results
          /\ wr.calls = Len(wr.waits) + 1
          /\ wr.error = NoError

\* C1 witness: a run of at least three attempts, all rate-limited, has thrown
C1_Witness ==
    /\ wr.pc = "thrown" /\ AllRateLimited(wr) /\ wr.calls >= 3

\* C2: a failure without the rate-limit signature (a value that is no Error, a
\* message that is not JSON, JSON without that status or code) ends the run at
\* once, on whichever attempt: the very failure is thrown, no wait follows it and
\* no invocation; and a run is ended before its attempts are used up only by
\* such a failure, so a failure with the signature is retried.
C2_RetryIffRateLimit ==
    /\ (wr.lastError # NoError /\ ~RateLimitSignature(wr.lastError)) =>
          /\ wr.pc = "thrown"
          /\ wr.error = wr.lastError
          /\ wr.error.seq = wr.calls
          /\ Len(wr.waits) = wr.calls - 1
    /\ (wr.pc = "thrown" /\ wr.calls < maxRetries) => ~RateLimitSignature(wr.error)
    /\ (wr.lastError # NoError /\ RateLimitSignature(wr.lastError)) =>
          Len(wr.waits) >= wr.lastError.seq

\* C2 witness: a value that is no Error, carrying the rate-limit payload, thrown
\* by the third invocation, has ended the run
C2_Witness ==
    /\ wr.pc = "thrown" /\ wr.calls = 3 /\ maxRetries > 3
    /\ ~wr.error.isError /\ wr.error.message = MsgQuota

\* C3: the delay waited after the failed attempt i is initialDelay * 2^i plus a
\* jitter in [0, 1000), so within a run the jitter-free parts double from one
\* wait to the next and never decrease.
C3_BackoffDoubles ==
    /\ wr.pc = "wait" =>
          /\ wr.delay - initialDelay * (2 ^ wr.i) >= 0
          /\ wr.delay - initialDelay * (2 ^ wr.i) < 1000
          /\ Len(wr.waits) = wr.i + 1
    /\ \A k \in 1..Len(wr.waits) : wr.waits[k] = initialDelay * (2 ^ (k - 1))
    /\ \A k \in 1..(Len(wr.waits) - 1) :
          wr.waits[k + 1] = 2 * wr.waits[k] /\ wr.waits[k] <= wr.waits[k + 1]

\* C3 witness: the third wait of a run, with a jitter that is not zero
C3_Witness ==
    /\ wr.pc = "wait" /\ wr.i = 2 /\ wr.delay > wr.waits[3]

\* C4: a backoff wait happens only when attempts remain, so that another
\* invocation follows every wait (the claim as stated; the code waits after the
\* last failed attempt too).
C4_WaitOnlyBeforeRetry ==
    wr.pc = "wait" => wr.i + 1 < maxRetries

-----------------------------------------------------------------------------
(* SpecAnalyze: App.handleAnalyzeScript and the two extractions it starts.  *)

\* Promise.all([parseScriptToScenes(script), extractCharactersFromScript(script)])
PromiseAll(ts) ==
    IF \E k \in Kinds : ts[k].st = "rejected" THEN "rejected"
    ELSE IF \A k \in Kinds : ts[k].st = "fulfilled" THEN "fulfilled"
    ELSE "pending"

AppState ==
    [scenes |-> scenes, characters |-> characters, isLoading |-> isLoading,
     appError |-> appError]

\* the mutant of AnalyzeContinue: the extractions awaited one after the other,
\* each result stored as it arrives
AnalyzeContinueSequential(ts, t, a) ==
    IF ts["scenes"].st = "rejected" \/ (ts["scenes"].st = "fulfilled" /\ ts["chars"].st = "rejected")
    THEN [a EXCEPT !.appError = <<"Failed to analyze script: ", GetApiErrorMessage(t.error)>>,
                   !.scenes = IF ts["scenes"].st = "fulfilled" THEN ts["scenes"].value ELSE @,
                   !.isLoading = FALSE]
    ELSE IF PromiseAll(ts) = "fulfilled"
    THEN [a EXCEPT !.scenes = ts["scenes"].value, !.characters = ts["chars"].value,
                   !.isLoading = FALSE]
    ELSE a

\* handleAnalyzeScript from `await Promise.all` on, when extraction task t has
\* just settled and ts are the two extractions: try, catch, finally
AnalyzeContinue(ts, t, a) ==
    IF PromiseAll(ts) = "fulfilled"
    THEN [a EXCEPT !.scenes = ts["scenes"].value, !.characters = ts["chars"].value,
                   !.isLoading = FALSE]
    ELSE IF PromiseAll(ts) = "rejected"
    THEN [a EXCEPT !.appError = <<"Failed to analyze script: ", GetApiErrorMessage(t.error)>>,
                   !.isLoading = FALSE]
    ELSE a

InitAnalyze ==
    /\ script = <<>>
    /\ scenes = EmptyArray
    /\ characters = EmptyArray
    /\ selectedStyle = NoStyle
    /\ isLoading = FALSE
    /\ appError = <<>>
    /\ run = 0
    /\ tasks = [k \in Kinds |-> IdleTask]
    /\ joined = FALSE
    /\ stale = {}
    /\ IdleRetry /\ IdleScene /\ IdleSheet

\* ScriptInput: the textarea (disabled while isLoading)
SetScript ==
    /\ ~isLoading
    /\ \E s \in Scripts : script' = s
    /\ UNCHANGED <<scenes, characters, selectedStyle, isLoading, appError, run, tasks,
                   joined, stale, retryVars, sheetVars, other, sceneVars>>

\* StyleSelector (rendered when characters.length > 0): onSelectStyle
SelectStyle ==
    /\ characters.isArray /\ Len(characters.items) > 0
    /\ \E n \in DOMAIN STYLES : selectedStyle' = STYLES[n]
    /\ UNCHANGED <<script, scenes, characters, isLoading, appError, run, tasks, joined,
                   stale, retryVars, sheetVars, other, sceneVars>>

\* the mutant of HandleAnalyzeScript: no check of the script
HandleAnalyzeScriptUnchecked ==
    /\ ~isLoading
    /\ run < MaxRuns
    /\ isLoading' = TRUE
    /\ appError' = <<>>
    /\ scenes' = EmptyArray
    /\ characters' = EmptyArray
    /\ selectedStyle' = NoStyle
    /\ run' = run + 1
    /\ tasks' = [k \in Kinds |-> Task("pending", WInit, EmptyArray, NoError)]
    /\ joined' = FALSE
    /\ stale' = stale \cup { [k |-> k, r |-> run] :
                                k \in { x \in Kinds : tasks[x].st = "pending" } }
    /\ UNCHANGED <<script, retryVars, sheetVars, other, sceneVars>>

\* handleAnalyzeScript up to `await Promise.all`: both extractions have issued
\* their first request.  The Analyze button is disabled while isLoading.
HandleAnalyzeScript ==
    /\ ~isLoading
    /\ IF Trim(script) = <<>>
       THEN /\ appError' = <<"Script cannot be empty.">>
            /\ UNCHANGED <<scenes, characters, selectedStyle, isLoading, run, tasks,
                           joined, stale>>
       ELSE /\ run < MaxRuns
            /\ isLoading' = TRUE
            /\ appError' = <<>>
            /\ scenes' = EmptyArray
            /\ characters' = EmptyArray
            /\ selectedStyle' = NoStyle
            /\ run' = run + 1
            /\ tasks' = [k \in Kinds |-> Task("pending", WInit, EmptyArray, NoError)]
            /\ joined' = FALSE
            /\ stale' = stale \cup { [k |-> k, r |-> run] :
                                        k \in { x \in Kinds : tasks[x].st = "pending" } }
    /\ UNCHANGED <<script, retryVars, sheetVars, other, sceneVars>>

\* extraction k of the latest run has become t: the handler goes on if its
\* Promise.all settles by it
AnalyzeSettle(k, t) ==
    LET ts == [tasks EXCEPT ![k] = t]
        a == IF joined THEN AppState ELSE AnalyzeContinue(ts, t, AppState)
    IN /\ tasks' = ts
       /\ joined' = (joined \/ PromiseAll(ts) # "pending")
       /\ scenes' = a.scenes
       /\ characters' = a.characters
       /\ isLoading' = a.isLoading
       /\ appError' = a.appError
       /\ UNCHANGED <<script, selectedStyle, run, stale, retryVars, sheetVars, other, sceneVars>>

\* the text model answers extraction k
AnalyzeResolve ==
    \E k \in Kinds :
        /\ tasks[k].st = "pending" /\ tasks[k].w.pc = "call"
        /\ \E resp \in TextResponses(k, run) :
              AnalyzeSettle(k, AfterResponse(k, WReturn(tasks[k].w, resp)))

\* the remote call of extraction k fails
AnalyzeCatch ==
    \E k \in Kinds :
        /\ tasks[k].st = "pending" /\ tasks[k].w.pc = "call"
        /\ \E thrown \in AnalyzeThrowables, j \in SomeJitter :
              AnalyzeSettle(k, AfterRetryStep(WCatch(tasks[k].w, thrown, j, DefaultInitialDelay)))

\* the backoff timer of extraction k fires
AnalyzeWake ==
    \E k \in Kinds :
        /\ tasks[k].st = "pending" /\ tasks[k].w.pc = "wait"
        /\ AnalyzeSettle(k, AfterRetryStep(WWake(tasks[k].w, DefaultMaxRetries)))

\* an extraction of an earlier run settles, in whichever way: the Promise.all
\* that awaited it has settled before, so nothing follows from it
StaleSettle ==
    \E x \in stale :
        /\ stale' = stale \ {x}
        /\ UNCHANGED <<script, scenes, characters, selectedStyle, isLoading, appError,
                       run, tasks, joined, retryVars, sheetVars, other, sceneVars>>

NextAnalyze ==
    \/ SetScript
    \/ SelectStyle
    \/ HandleAnalyzeScript
    \/ AnalyzeResolve
    \/ AnalyzeCatch
    \/ AnalyzeWake
    \/ StaleSettle

SpecAnalyze == InitAnalyze /\ [][NextAnalyze]_vars

\* C5: when the text model's response is not valid JSON the extraction fails
\* with the parse error and that response was its only one: every remote call
\* before it was a rate-limit failure followed by its wait (none when the first
\* call is answered: exactly one call), no call and no wait follows it, and the
\* parse error does not carry the rate-limit signature.  An extraction still
\* pending has had no response yet.
C5_ParseFailureNotRetried ==
    \A k \in Kinds :
        LET t == tasks[k] IN
        /\ (t.w.pc = "returned" /\ ~t.w.result.parses) =>
              /\ t.st = "rejected"
              /\ t.error = ParseError(k)
              /\ ~RateLimitSignature(t.error)
              /\ WIssued(t.w) = t.w.calls
              /\ t.w.calls = Len(t.w.waits) + 1
              /\ (t.w.waits = <<>> => t.w.calls = 1)
        /\ (t.st = "rejected" /\ t.error = ParseError(k)) =>
              (t.w.pc = "returned" /\ ~t.w.result.parses)
        /\ t.st = "pending" => AllRateLimited(t.w)

\* C5 witness: both extractions have failed on a response that is not JSON,
\* the scene extraction on its first call, the other after a rate-limit retry
C5_Witness ==
    /\ tasks["scenes"].st = "rejected" /\ tasks["scenes"].error = ParseError("scenes")
    /\ tasks["scenes"].w.calls = 1
    /\ tasks["chars"].st = "rejected" /\ tasks["chars"].error = ParseError("chars")
    /\ tasks["chars"].w.calls = 2

\* C6: handleAnalyzeScript on an empty or whitespace-only script sets the error
\* and nothing else: no extraction is started (no remote call), and the scene
\* list, the character catalog, the selected style and the loading flag stay as
\* they are.
C6_BlankScriptRejected ==
    [][(Trim(script) = <<>> /\ HandleAnalyzeScript) =>
          /\ appError' = <<"Script cannot be empty.">>
          /\ UNCHANGED <<scenes, characters, selectedStyle, isLoading, run, tasks,
                         joined, stale>>]_vars

\* C6 witness: the blank-script error shown over the results of an earlier
\* analysis and a selected style
C6_Witness ==
    /\ appError = <<"Script cannot be empty.">>
    /\ Trim(script) = <<>> /\ script # <<>>
    /\ Len(scenes.items) > 0 /\ Len(characters.items) > 0
    /\ selectedStyle # NoStyle
    /\ ~isLoading

\* what the text model said of the characters, portraits aside
CatalogData(v) ==
    [isArray |-> v.isArray,
     items |-> [n \in DOMAIN v.items |->
                  [name |-> v.items[n].name, description |-> v.items[n].description]]]

\* C7: the two extractions are started together, and after an analysis run
\* either both the scene list and the character catalog hold that run's results
\* or one extraction failed, both are empty and an error is set; while a run is
\* loading both are empty; the state never holds records of an earlier run or
\* of two different runs.
C7_BothOrNeither ==
    /\ (tasks["scenes"].st = "idle") = (tasks["chars"].st = "idle")
    /\ (tasks["scenes"].st = "idle") = (run = 0)
    /\ \A sc \in Range(scenes.items) : sc.scene_id[2] = ToString(run)
    /\ \A c \in Range(characters.items) : c.description[2] = ToString(run)
    /\ isLoading => (scenes = EmptyArray /\ characters = EmptyArray)
    /\ (run > 0 /\ ~isLoading) =>
          \/ /\ \A k \in Kinds : tasks[k].st = "fulfilled"
             /\ scenes = tasks["scenes"].value
             /\ CatalogData(characters) = CatalogData(tasks["chars"].value)
          \/ /\ \E k \in Kinds : tasks[k].st = "rejected"
             /\ scenes = EmptyArray /\ characters = EmptyArray
             /\ appError # <<>>

\* C7 witness: the second run has stored its scenes and its characters while
\* an extraction of the first run, which failed, is still in flight
C7_Witness ==
    /\ run = 2 /\ ~isLoading /\ stale # {}
    /\ Len(scenes.items) > 0 /\ Len(characters.items) > 0
    /\ scenes = tasks["scenes"].value

\* the message the specification asks for: the payload's error message when the
\* Error's message is JSON carrying one, the raw text of the message otherwise
PayloadMessageOrRawText(e) ==
    IF e.message.parses /\ e.message.kind = "object" /\ e.message.hasError
       /\ e.message.emsg # ""
    THEN e.message.emsg
    ELSE e.message.raw

\* C21: getApiErrorMessage returns the structured payload's error message when
\* the error's message is JSON carrying one, and the raw text of the error's
\* message otherwise, also when that message is valid JSON without an
\* error.message field: whenever a failed extraction ends the analysis, the
\* text shown after 'Failed to analyze script: ' is that message (the claim as
\* stated; the code returns a fixed generic sentence for JSON without
\* error.message).
C21_PayloadMessageOrRawText ==
    [][(~joined /\ joined' /\ appError' # <<>>) =>
          \E k \in Kinds :
              /\ tasks[k].st = "pending" /\ tasks'[k].st = "rejected"
              /\ appError'[2] = PayloadMessageOrRawText(tasks'[k].error)
      ]_vars

\* C24: when one of the two concurrent extractions fails while the other is
\* still in flight, the analysis error is surfaced without waiting for the
\* other, but the loading flag is cleared, and a new analysis can be started,
\* only after both extractions have settled: while an extraction of the latest
\* run is pending the App is loading (the claim as stated; the code clears the
\* flag in the finally that runs as soon as Promise.all rejects).
C24_LoadingUntilBothSettled ==
    /\ (\E k \in Kinds : tasks[k].st = "rejected") => appError # <<>>
    /\ (\E k \in Kinds : tasks[k].st = "pending") => isLoading

-----------------------------------------------------------------------------
(* The scene card's pure functions: names, data URLs, prompts, conditioning *)
(* images, the image request.                                               *)

NameCy == <<"C", "y">>

\* String.prototype.toLowerCase, atom by atom
LowerAtom(a) ==
    CASE a = "A" -> "a" [] a = "B" -> "b" [] a = "C" -> "c" [] OTHER -> a
ToLowerCase(s) == [n \in DOMAIN s |-> LowerAtom(s[n])]

\* `data:${mimeType};base64,${data}`
DataUrl(mimeType, data) == <<"data:", mimeType, ";base64", ",", data>>

\* the portraits a user attaches: a PNG, and a file whose type is unknown
PortraitPng == DataUrl("image/png", "pA")
PortraitNoType == <<"data:", ";base64", ",", "pB">>
PortraitCy == DataUrl("image/png", "pC")

\* the index of the first atom of s that is a, 0 when there is none
RECURSIVE IndexFrom(_, _, _)
IndexFrom(s, a, n) ==
    IF n > Len(s) THEN 0 ELSE IF s[n] = a THEN n ELSE IndexFrom(s, a, n + 1)

\* getBase64Data: [header, data] = dataUrl.split(','); the mime type is what
\* stands between the first ':' and the next ';' of the header, or image/png
GetBase64Data(dataUrl) ==
    LET comma == IndexFrom(dataUrl, ",", 1)
        header == IF comma = 0 THEN dataUrl ELSE SubSeq(dataUrl, 1, comma - 1)
        rest == IF comma = 0 THEN <<>> ELSE SubSeq(dataUrl, comma + 1, Len(dataUrl))
        next == IndexFrom(rest, ",", 1)
        data == IF next = 0 THEN rest ELSE SubSeq(rest, 1, next - 1)
        semi == IndexFrom(header, ";base64", 1)
    IN [data |-> data,
        mimeType |-> IF Len(header) >= 1 /\ header[1] = "data:" /\ semi > 2
                     THEN SubSeq(header, 2, semi - 1)
                     ELSE <<"image/png">>]

\* a content part: { text } or { inlineData: { data, mimeType } }
TextPart(text) == [kind |-> "text", text |-> text, data |-> <<>>, mimeType |-> <<>>]
InlinePart(d) == [kind |-> "image", text |-> <<>>, data |-> d.data, mimeType |-> d.mimeType]

\* Array.prototype.join(', ')
RECURSIVE Join(_)
Join(ss) ==
    IF ss = <<>> THEN <<>>
    ELSE IF Len(ss) = 1 THEN ss[1]
    ELSE ss[1] \o <<",", " ">> \o Join(Tail(ss))

\* words separated by single spaces
RECURSIVE Spaced(_)
Spaced(ws) ==
    IF ws = <<>> THEN <<>>
    ELSE IF Len(ws) = 1 THEN <<ws[1]>>
    ELSE <<ws[1], " ">> \o Spaced(Tail(ws))

\* the mutant of CollapseSpaces: the text as it is
CollapseSpacesNot(s) == s

\* replace(/\s+/g, ' ')
RECURSIVE CollapseSpaces(_)
CollapseSpaces(s) ==
    IF s = <<>> THEN <<>>
    ELSE IF IsSpace(s[1])
         THEN <<" ">> \o CollapseSpaces(TrimLeft(s))
         ELSE <<s[1]>> \o CollapseSpaces(Tail(s))

\* the mutant of FindCharacter: names compared as they are written
RECURSIVE FindCharacterCaseSensitive(_, _, _)
FindCharacterCaseSensitive(chars, charName, n) ==
    IF n > Len(chars) THEN 0
    ELSE IF chars[n].name = charName THEN n
    ELSE FindCharacterCaseSensitive(chars, charName, n + 1)

\* characters.find(c => c.name.toLowerCase() === charName.toLowerCase()):
\* the index of the first such record, 0 when there is none
RECURSIVE FindCharacter(_, _, _)
FindCharacter(chars, charName, n) ==
    IF n > Len(chars) THEN 0
    ELSE IF ToLowerCase(chars[n].name) = ToLowerCase(charName) THEN n
    ELSE FindCharacter(chars, charName, n + 1)

\* basePrompt: one character's detail
CharacterDetail(chars, charName) ==
    LET n == FindCharacter(chars, charName, 1) IN
    IF n = 0 THEN charName
    ELSE chars[n].name \o <<" ">> \o
         (IF chars[n].imageUrl # NoImage
          THEN Spaced(<<"who", "looks", "like", "the", "provided", "image", "reference">>)
          ELSE <<"(">> \o chars[n].description \o <<")">>)

\* basePrompt
BasePrompt(scene, chars, style) ==
    LET characterDetails ==
            Join([n \in DOMAIN scene.characters |->
                    CharacterDetail(chars, scene.characters[n])])
    IN Trim(CollapseSpaces(
         style.promptModifier \o <<".", " ", "\n", " ", " ", " ", " ">>
         \o <<"Location:", " ">> \o scene.location \o <<".", " ">>
         \o <<"Time:", " ">> \o scene.time \o <<".", " ">>
         \o <<"Mood:", " ">> \o scene.mood \o <<".", " ", "\n", " ", " ", " ", " ">>
         \o <<"Characters", " ", "present:", " ">>
         \o (IF characterDetails = <<>> THEN <<"None">> ELSE characterDetails)
         \o <<".">>))

\* generatePrompts: startPrompt and endPrompt
StartPrompt(base, scene) ==
    base \o <<" ">>
    \o Spaced(<<"Wide", "shot", "establishing", "the", "scene.", "Camera", "movement",
                "suggests:">>)
    \o <<" ">> \o scene.camera_movement \o <<".">>
EndPrompt(base) ==
    base \o <<" ">>
    \o Spaced(<<"Close-up", "shot", "focusing", "on", "a", "key", "character", "or",
                "object,", "showing", "emotional", "development.">>)

\* the mutant of RelevantCharacters: names compared as they are written
RelevantCharactersCaseSensitive(scene, chars) ==
    SelectSeq(chars,
              LAMBDA c : c.imageUrl # NoImage
                         /\ \E n \in DOMAIN scene.characters : scene.characters[n] = c.name)

\* relevantCharacters = characters.filter(c => c.imageUrl &&
\*    sceneCharacterNames.includes(c.name.toLowerCase()))
RelevantCharacters(scene, chars) ==
    LET sceneCharacterNames ==
            [n \in DOMAIN scene.characters |-> ToLowerCase(scene.characters[n])]
    IN SelectSeq(chars,
                 LAMBDA c : c.imageUrl # NoImage
                            /\ \E n \in DOMAIN sceneCharacterNames :
                                  sceneCharacterNames[n] = ToLowerCase(c.name))

\* relevantCharacters.map(char => ({ inlineData: getBase64Data(char.imageUrl!) }))
CharacterImages(scene, chars) ==
    LET rel == RelevantCharacters(scene, chars)
    IN [n \in DOMAIN rel |-> InlinePart(GetBase64Data(rel[n].imageUrl))]

\* handleGenerateStartFrame: baseImages
StartBaseImages(scene, chars) == CharacterImages(scene, chars)

\* the mutant of EndBaseImages: the start frame image left out
EndBaseImagesNoStart(scene, chars, startFrameImageUrl) == CharacterImages(scene, chars)

\* handleGenerateEndFrame: baseImages = [startFrameImage, ...characterImages]
EndBaseImages(scene, chars, startFrameImageUrl) ==
    <<InlinePart(GetBase64Data(startFrameImageUrl))>> \o CharacterImages(scene, chars)

\* generateImageForPrompt: fullPrompt
FullPrompt(prompt, aspectRatio) ==
    prompt \o <<".", " ", "Aspect", " ", "ratio:", " ", aspectRatio, ".">>

\* generateImageForPrompt(prompt, aspectRatio): the content parts of the request.
\* The function declares two parameters; a third argument is not read.
RequestParts(prompt, aspectRatio, conditioningImages) ==
    <<TextPart(FullPrompt(prompt, aspectRatio))>>

\* the parts of the image model's response: none, text only, an image, text
\* before an image, two images
ImageA == [data |-> <<"iA">>, mimeType |-> <<"image/png">>]
ImageB == [data |-> <<"iB">>, mimeType |-> <<"image/jpeg">>]
ImageResponses ==
    { <<>>,
      <<TextPart(<<"sorry">>)>>,
      <<InlinePart(ImageA)>>,
      <<TextPart(<<"here">>), InlinePart(ImageB)>>,
      <<InlinePart(ImageB), InlinePart(ImageA)>> }

\* the mutant of FirstImage: the last part with inlineData wins
FirstImageLast(parts) ==
    LET imgs == SelectSeq(parts, LAMBDA part : part.kind = "image")
    IN IF imgs = <<>> THEN NoImage
       ELSE <<"data:">> \o imgs[Len(imgs)].mimeType \o <<";base64", ",">>
            \o imgs[Len(imgs)].data

\* generateImageForPrompt: the data URL of the first part with inlineData,
\* NoImage when there is none (the function then throws)
FirstImage(parts) ==
    LET imgs == SelectSeq(parts, LAMBDA part : part.kind = "image")
    IN IF imgs = <<>> THEN NoImage
       ELSE <<"data:">> \o imgs[1].mimeType \o <<";base64", ",">> \o imgs[1].data

\* new Error("Image generation failed to return an image.")
NoImageError ==
    Thrown(TRUE, Msg("Image generation failed to return an image.", FALSE, "none",
                     FALSE, "", 0, ""), 0)

-----------------------------------------------------------------------------
(* SpecScene: one SceneCard, its scene, and the catalog and style it is     *)
(* given.  Frame generation goes through generateImageForPrompt and         *)
(* callApiWithRetry with its default parameters.                            *)

\* the card's scene: it lists Bo, then Al, then a name the catalog lacks
NameDi == <<"D", "i">>
TheScene == [SceneOf(1) EXCEPT !.characters = <<NameBo, NameAl, NameDi>>]

\* the catalog of the analysis: al (written in lower case), Bo, and Cy, who is
\* not in the scene and has a portrait already
TheCatalog ==
    [isArray |-> TRUE,
     items |-> <<CharacterOf(1, Nameal), CharacterOf(1, NameBo),
                 [CharacterOf(1, NameCy) EXCEPT !.imageUrl = PortraitCy]>>]

\* the portraits the character cards attach: <<index in the catalog, data URL>>
Uploads == { <<1, PortraitPng>>, <<2, PortraitNoType>> }

\* what a user types into a frame's prompt
UserPrompts == { <<"my", " ", "prompt">> }

\* what the remote image call throws
ImageThrowables ==
    { [isError |-> TRUE, message |-> m] : m \in {MsgQuota, MsgPlain} }

\* useState of SceneCard, after the effect that derives the prompts on mount
CardInit(base) ==
    [startFrame |-> [prompt |-> StartPrompt(base, TheScene), imageUrl |-> NoImage],
     endFrame |-> [prompt |-> EndPrompt(base), imageUrl |-> NoImage],
     videoState |-> [status |-> "IDLE", url |-> NoImage, message |-> ""],
     isGeneratingStartFrame |-> FALSE,
     isGeneratingEndFrame |-> FALSE,
     error |-> <<>>,
     currentLoadingMessage |-> "Warming up the virtual cameras..."]

\* no frame generation in flight
NoOp ==
    [kind |-> "none", combined |-> FALSE, w |-> WInit, prompt |-> <<>>,
     images |-> <<>>, parts |-> <<>>, chars |-> <<>>, endPrompt |-> <<>>]

\* isAnyImageLoading, isBusy
IsAnyImageLoading(c) == c.isGeneratingStartFrame \/ c.isGeneratingEndFrame
IsBusy(c) == IsAnyImageLoading(c) \/ c.videoState.status = "GENERATING"

\* the mutant of BeginStartFrame: the prompt sent is the one derived from the
\* scene, whatever the frame's prompt is
BeginStartFrameDerived(c, chars, combined, snt) ==
    LET baseImages == StartBaseImages(TheScene, chars)
        derived == StartPrompt(BasePrompt(TheScene, chars, STYLES[1]), TheScene)
    IN [card |-> [c EXCEPT !.isGeneratingStartFrame = TRUE, !.error = <<>>],
        op |-> [kind |-> "start", combined |-> combined, w |-> WInit,
                prompt |-> derived,
                images |-> baseImages,
                parts |-> RequestParts(derived, "16:9", baseImages),
                chars |-> IF combined THEN chars ELSE <<>>,
                endPrompt |-> IF combined THEN c.endFrame.prompt ELSE <<>>],
        sent |-> [snt EXCEPT !.frames = @ \cup {"start"}]]

\* handleGenerateStartFrame up to the await of generateImageForPrompt, in the
\* closure of a render with frame prompts and catalog as given
BeginStartFrame(c, chars, combined, snt) ==
    LET baseImages == StartBaseImages(TheScene, chars) IN
    [card |-> [c EXCEPT !.isGeneratingStartFrame = TRUE, !.error = <<>>],
     op |-> [kind |-> "start", combined |-> combined, w |-> WInit,
             prompt |-> c.startFrame.prompt,
             images |-> baseImages,
             parts |-> RequestParts(c.startFrame.prompt, "16:9", baseImages),
             chars |-> IF combined THEN chars ELSE <<>>,
             endPrompt |-> IF combined THEN c.endFrame.prompt ELSE <<>>],
     sent |-> [snt EXCEPT !.frames = @ \cup {"start"}]]

\* the mutant of BeginEndFrame: the end frame's loading flag is not set
BeginEndFrameUnflagged(c, chars, endPrompt, startFrameImageUrl, combined, snt) ==
    LET baseImages == EndBaseImages(TheScene, chars, startFrameImageUrl) IN
    [card |-> [c EXCEPT !.error = <<>>],
     op |-> [kind |-> "end", combined |-> combined, w |-> WInit,
             prompt |-> endPrompt,
             images |-> baseImages,
             parts |-> RequestParts(endPrompt, "16:9", baseImages),
             chars |-> <<>>,
             endPrompt |-> <<>>],
     sent |-> [snt EXCEPT !.frames = @ \cup {"end"}]]

\* handleGenerateEndFrame(startFrameImageUrl) up to the await, in the closure of
\* a render with end prompt and catalog as given
BeginEndFrame(c, chars, endPrompt, startFrameImageUrl, combined, snt) ==
    LET baseImages == EndBaseImages(TheScene, chars, startFrameImageUrl) IN
    [card |-> [c EXCEPT !.isGeneratingEndFrame = TRUE, !.error = <<>>],
     op |-> [kind |-> "end", combined |-> combined, w |-> WInit,
             prompt |-> endPrompt,
             images |-> baseImages,
             parts |-> RequestParts(endPrompt, "16:9", baseImages),
             chars |-> <<>>,
             endPrompt |-> <<>>],
     sent |-> [snt EXCEPT !.frames = @ \cup {"end"}]]

\* the mutant of FrameSucceeded: the image is put into both frames
FrameSucceededBoth(c, o, snt, imageUrl) ==
    [card |-> [c EXCEPT !.startFrame.imageUrl = imageUrl,
                        !.endFrame.imageUrl = imageUrl,
                        !.isGeneratingStartFrame = FALSE,
                        !.isGeneratingEndFrame = FALSE],
     op |-> NoOp, sent |-> snt]

\* generateImageForPrompt returned imageUrl: the rest of the handler, and of
\* handleGenerateImages when it is the caller
FrameSucceeded(c, o, snt, imageUrl) ==
    IF o.kind = "start"
    THEN LET c1 == [c EXCEPT !.startFrame.imageUrl = imageUrl,
                             !.isGeneratingStartFrame = FALSE]
         IN IF o.combined /\ imageUrl # NoImage
            THEN BeginEndFrame(c1, o.chars, o.endPrompt, imageUrl, TRUE, snt)
            ELSE [card |-> c1, op |-> NoOp, sent |-> snt]
    ELSE [card |-> [c EXCEPT !.endFrame.imageUrl = imageUrl,
                             !.isGeneratingEndFrame = FALSE],
          op |-> NoOp, sent |-> snt]

\* the mutant of FrameFailed: handleGenerateStartFrame does not rethrow, and
\* handleGenerateImages goes on with the start frame image in the state
FrameFailedGoesOn(c, o, snt, err) ==
    IF o.kind = "start"
    THEN LET c1 == [c EXCEPT !.error = <<"Failed to generate start frame: ",
                                         GetApiErrorMessage(err)>>,
                             !.isGeneratingStartFrame = FALSE]
         IN IF o.combined
            THEN BeginEndFrame(c1, o.chars, o.endPrompt, c.startFrame.imageUrl, TRUE, snt)
            ELSE [card |-> c1, op |-> NoOp, sent |-> snt]
    ELSE [card |-> [c EXCEPT !.error = <<"Failed to generate end frame: ",
                                        GetApiErrorMessage(err)>>,
                             !.isGeneratingEndFrame = FALSE],
          op |-> NoOp, sent |-> snt]

\* the mutant of FrameFailed: the failed frame loses the image it had
FrameFailedDropsImage(c, o, snt, err) ==
    IF o.kind = "start"
    THEN [card |-> [c EXCEPT !.error = <<"Failed to generate start frame: ",
                                        GetApiErrorMessage(err)>>,
                             !.startFrame.imageUrl = NoImage,
                             !.isGeneratingStartFrame = FALSE],
          op |-> NoOp, sent |-> snt]
    ELSE [card |-> [c EXCEPT !.error = <<"Failed to generate end frame: ",
                                        GetApiErrorMessage(err)>>,
                             !.endFrame.imageUrl = NoImage,
                             !.isGeneratingEndFrame = FALSE],
          op |-> NoOp, sent |-> snt]

\* generateImageForPrompt threw err: catch and finally of the handler; the
\* start frame handler rethrows and handleGenerateImages swallows it
FrameFailed(c, o, snt, err) ==
    IF o.kind = "start"
    THEN [card |-> [c EXCEPT !.error = <<"Failed to generate start frame: ",
                                        GetApiErrorMessage(err)>>,
                             !.isGeneratingStartFrame = FALSE],
          op |-> NoOp, sent |-> snt]
    ELSE [card |-> [c EXCEPT !.error = <<"Failed to generate end frame: ",
                                        GetApiErrorMessage(err)>>,
                             !.isGeneratingEndFrame = FALSE],
          op |-> NoOp, sent |-> snt]

\* the mutant of PromptsEffect: a prompt the user has typed is kept
PromptsEffectKeepsEdits(c, oldBase, newBase) ==
    IF newBase = oldBase THEN c
    ELSE [c EXCEPT !.startFrame.prompt = IF @ \in UserPrompts THEN @
                                         ELSE StartPrompt(newBase, TheScene),
                   !.endFrame.prompt = IF @ \in UserPrompts THEN @
                                       ELSE EndPrompt(newBase)]

\* the effect on generatePrompts: both prompts are derived again when the
\* base prompt text has changed
PromptsEffect(c, oldBase, newBase) ==
    IF newBase = oldBase THEN c
    ELSE [c EXCEPT !.startFrame.prompt = StartPrompt(newBase, TheScene),
                   !.endFrame.prompt = EndPrompt(newBase)]

\* the mutant of HandleUpdateCharacter: names compared without regard to case
HandleUpdateCharacterAnyCase(prev, updatedCharacter) ==
    [prev EXCEPT !.items =
        [n \in DOMAIN prev.items |->
            IF ToLowerCase(prev.items[n].name) = ToLowerCase(updatedCharacter.name)
            THEN updatedCharacter
            ELSE prev.items[n]]]

\* App.handleUpdateCharacter
HandleUpdateCharacter(prev, updatedCharacter) ==
    [prev EXCEPT !.items =
        [n \in DOMAIN prev.items |->
            IF prev.items[n].name = updatedCharacter.name THEN updatedCharacter
            ELSE prev.items[n]]]

\* the request log: the last click on the card, and the frames a remote image
\* request has been sent for since, and the last response to one, if any
NoAnswer == [got |-> FALSE, parts |-> <<>>]
Answer(parts) == [got |-> TRUE, parts |-> parts]
Clicked(button) == [click |-> button, frames |-> {}, answer |-> NoAnswer]
NoneSent == Clicked("none")

InitScene ==
    /\ characters = TheCatalog
    /\ selectedStyle \in Range(STYLES)
    /\ card = CardInit(BasePrompt(TheScene, characters.items, selectedStyle))
    /\ op = NoOp
    /\ sent = NoneSent
    /\ video = NoJob
    /\ IdleRetry /\ IdleApp /\ IdleSheet

SceneStep(x) ==
    /\ card' = x.card
    /\ op' = x.op
    /\ sent' = x.sent
    /\ UNCHANGED <<characters, selectedStyle, video, retryVars, sheetVars, other, appVars>>

\* the button Generate Start & End Frames: handleGenerateImages
ClickGenerateImages ==
    /\ ~IsBusy(card)
    /\ SceneStep(BeginStartFrame(card, characters.items, TRUE, Clicked("images")))

\* Regenerate of the start frame: handleGenerateStartFrame
ClickRegenerateStart ==
    /\ ~IsBusy(card)
    /\ Trim(card.startFrame.prompt) # <<>>
    /\ SceneStep(BeginStartFrame(card, characters.items, FALSE, Clicked("start")))

\* Regenerate of the end frame:
\* startFrame.imageUrl && handleGenerateEndFrame(startFrame.imageUrl)
ClickRegenerateEnd ==
    /\ ~(IsBusy(card) \/ card.startFrame.imageUrl = NoImage)
    /\ Trim(card.endFrame.prompt) # <<>>
    /\ SceneStep(BeginEndFrame(card, characters.items, card.endFrame.prompt,
                               card.startFrame.imageUrl, FALSE, Clicked("end")))

\* the textarea of the start frame: onPromptChange
EditStartPrompt ==
    /\ ~IsBusy(card)
    /\ \E p \in UserPrompts : card' = [card EXCEPT !.startFrame.prompt = p]
    /\ UNCHANGED <<op, sent, video, characters, selectedStyle, retryVars, sheetVars, other, appVars>>

\* the textarea of the end frame: onPromptChange
EditEndPrompt ==
    /\ ~(IsBusy(card) \/ card.startFrame.imageUrl = NoImage)
    /\ \E p \in UserPrompts : card' = [card EXCEPT !.endFrame.prompt = p]
    /\ UNCHANGED <<op, sent, video, characters, selectedStyle, retryVars, sheetVars, other, appVars>>

\* the image model answers the request in flight
FrameResolve ==
    /\ op.kind # "none" /\ op.w.pc = "call"
    /\ \E parts \in ImageResponses :
          LET o == [op EXCEPT !.w = WReturn(op.w, parts)]
              snt == [sent EXCEPT !.answer = Answer(parts)]
          IN IF FirstImage(parts) # NoImage
             THEN SceneStep(FrameSucceeded(card, o, snt, FirstImage(parts)))
             ELSE SceneStep(FrameFailed(card, o, snt, NoImageError))

\* the remote image call fails
FrameCatch ==
    /\ op.kind # "none" /\ op.w.pc = "call"
    /\ \E thrown \in ImageThrowables, j \in SomeJitter :
          LET w1 == WCatch(op.w, thrown, j, DefaultInitialDelay) IN
          IF w1.pc = "thrown"
          THEN SceneStep(FrameFailed(card, [op EXCEPT !.w = w1], sent, w1.error))
          ELSE SceneStep([card |-> card, op |-> [op EXCEPT !.w = w1], sent |-> sent])

\* the backoff timer fires: the request is sent again, or lastError is thrown
FrameWake ==
    /\ op.kind # "none" /\ op.w.pc = "wait"
    /\ LET w1 == WWake(op.w, DefaultMaxRetries) IN
       IF w1.pc = "thrown"
       THEN SceneStep(FrameFailed(card, [op EXCEPT !.w = w1], sent, w1.error))
       ELSE SceneStep([card |-> card, op |-> [op EXCEPT !.w = w1],
                       sent |-> [sent EXCEPT !.frames = @ \cup {op.kind}]])

\* a CharacterCard attaches a portrait: onUpdateCharacter({...character, imageUrl}),
\* and the card's effect on the new catalog
UpdateCharacter ==
    \E u \in Uploads :
        /\ characters' =
              HandleUpdateCharacter(characters, [characters.items[u[1]] EXCEPT !.imageUrl = u[2]])
        /\ card' = PromptsEffect(card,
                                 BasePrompt(TheScene, characters.items, selectedStyle),
                                 BasePrompt(TheScene, characters'.items, selectedStyle))
        /\ UNCHANGED <<op, sent, video, selectedStyle, retryVars, sheetVars, other, appVars>>

\* StyleSelector: onSelectStyle, and the card's effect on the new style
SceneSelectStyle ==
    \E n \in DOMAIN STYLES :
        /\ selectedStyle' = STYLES[n]
        /\ card' = PromptsEffect(card,
                                 BasePrompt(TheScene, characters.items, selectedStyle),
                                 BasePrompt(TheScene, characters.items, selectedStyle'))
        /\ UNCHANGED <<op, sent, video, characters, retryVars, sheetVars, other, appVars>>

NextScene ==
    \/ ClickGenerateImages
    \/ ClickRegenerateStart
    \/ ClickRegenerateEnd
    \/ EditStartPrompt
    \/ EditEndPrompt
    \/ FrameResolve
    \/ FrameCatch
    \/ FrameWake
    \/ UpdateCharacter
    \/ SceneSelectStyle

SpecScene == InitScene /\ [][NextScene]_vars

-----------------------------------------------------------------------------
(* Claims about the frame workflow of a scene card, checked under SpecScene *)

\* C8: in the combined workflow, when start-frame generation fails, no remote
\* image call for the end frame is issued and the end frame's image and loading
\* flag are left unchanged; the end-frame call is issued only after the
\* start-frame call has resolved with an image.  While the start frame of the
\* combined workflow is in flight no end-frame request has been sent and the
\* end frame is not loading.  A step that leaves it either (a) stays with the
\* start frame (a backoff), or (b) ends the workflow with the start-frame error
\* shown, no end-frame request sent, end frame image and flag untouched, or (c)
\* is the answer of the image call, carrying an image that becomes the start
\* frame image, with which the end-frame request is sent.
C8_EndOnlyAfterStartImage ==
    [][(op.kind = "start" /\ op.combined) =>
          /\ "end" \notin sent.frames /\ ~card.isGeneratingEndFrame
          /\ \/ /\ op'.kind = "start"
                /\ "end" \notin sent'.frames
                /\ card'.endFrame.imageUrl = card.endFrame.imageUrl
                /\ ~card'.isGeneratingEndFrame
             \/ /\ op'.kind = "none"
                /\ Len(card'.error) = 2
                /\ card'.error[1] = "Failed to generate start frame: "
                /\ "end" \notin sent'.frames
                /\ card'.endFrame.imageUrl = card.endFrame.imageUrl
                /\ ~card'.isGeneratingEndFrame
                /\ card'.startFrame = card.startFrame
             \/ /\ op'.kind = "end"
                /\ op.w.pc = "call" /\ ~(FrameCatch \/ FrameWake)
                /\ \E parts \in ImageResponses :
                      /\ FirstImage(parts) # NoImage
                      /\ card'.startFrame.imageUrl = FirstImage(parts)
                /\ sent'.frames = {"start", "end"}
                /\ card'.isGeneratingEndFrame /\ ~card'.isGeneratingStartFrame
                /\ card'.endFrame.imageUrl = card.endFrame.imageUrl
      ]_vars

\* the combined workflow has ended on a failed start frame, on a card whose
\* frames both had an image from an earlier run
C8_Witness ==
    /\ sent.click = "images" /\ sent.frames = {"start"}
    /\ op.kind = "none"
    /\ card.error # <<>>
    /\ card.startFrame.imageUrl # NoImage
    /\ card.endFrame.imageUrl # NoImage
    /\ ~card.isGeneratingEndFrame

\* the portraits of the catalog characters that have one and whose name is, up
\* to case, a name of the scene, in catalog order
C9_Portraits(chars) ==
    LET OnScene(c) ==
            /\ c.imageUrl # NoImage
            /\ \E n \in DOMAIN TheScene.characters :
                  ToLowerCase(TheScene.characters[n]) = ToLowerCase(c.name)
        kept == SelectSeq(chars, OnScene)
    IN [n \in DOMAIN kept |-> InlinePart(GetBase64Data(kept[n].imageUrl))]

\* C9: the conditioning list built for the start frame is exactly the portraits
\* of catalog characters that have a portrait and whose name matches, case-
\* insensitively, a name of the scene; the list built for the end frame is the
\* start frame image passed to it, first, followed by that same portrait list
\* in the same order; in the combined workflow that image is the one the run
\* has just generated.
C9_ConditioningLists ==
    [][/\ (op.kind = "none" /\ op'.kind = "start") =>
            op'.images = C9_Portraits(characters.items)
       /\ (op.kind = "none" /\ op'.kind = "end") =>
            op'.images = <<InlinePart(GetBase64Data(card.startFrame.imageUrl))>>
                            \o C9_Portraits(characters.items)
       /\ (op.kind = "start" /\ op'.kind = "end") =>
            /\ op'.images = <<InlinePart(GetBase64Data(card'.startFrame.imageUrl))>>
                               \o op.images
            /\ \E parts \in ImageResponses :
                  /\ FirstImage(parts) # NoImage
                  /\ card'.startFrame.imageUrl = FirstImage(parts)
      ]_vars

\* the end frame of a combined run is in flight, conditioned on the JPEG the run
\* has generated and on the portraits of al and Bo, while Cy's portrait is left
\* out
C9_Witness ==
    /\ op.kind = "end" /\ op.combined
    /\ card.startFrame.imageUrl = DataUrl("image/jpeg", "iB")
    /\ Len(op.images) = 3
    /\ op.images[1] = InlinePart(ImageB)
    /\ op.images[2] = InlinePart(GetBase64Data(PortraitPng))
    /\ op.images[3] = InlinePart([data |-> <<"pB">>, mimeType |-> <<"image/png">>])

\* C10: for every call generateImageForPrompt(prompt, aspectRatio,
\* conditioningImages) the request's content parts are the conditioning images
\* in the given order followed by the text prompt.
C10_PartsAreImagesThenText ==
    op.kind # "none" =>
        op.parts = op.images \o <<TextPart(FullPrompt(op.prompt, "16:9"))>>

\* the frame a generation in flight is for
FrameOf(c, kind) == IF kind = "start" THEN c.startFrame ELSE c.endFrame

\* C11: generateImageForPrompt returns the data URI of the first response part,
\* in part order, that carries an inline image, whatever follows it; a response
\* without such a part fails the generation with the image-generation error
\* after that single call: nothing is sent again and nothing stays in flight.
C11_FirstInlineImage ==
    [][FrameResolve =>
         LET parts == sent'.answer.parts
             withImage == { n \in DOMAIN parts : parts[n].kind = "image" }
         IN /\ sent'.answer.got
            /\ IF withImage = {}
               THEN /\ op' = NoOp
                    /\ sent'.frames = sent.frames
                    /\ Len(card'.error) = 2
                    /\ card'.error[2] = "Image generation failed to return an image."
                    /\ card'.startFrame = card.startFrame
                    /\ card'.endFrame = card.endFrame
               ELSE LET n == CHOOSE m \in withImage : \A k \in withImage : m <= k
                    IN /\ FrameOf(card', op.kind).imageUrl =
                            <<"data:">> \o parts[n].mimeType \o <<";base64", ",">>
                                        \o parts[n].data
                       /\ card'.error = <<>>
      ]_vars

\* a start frame was regenerated from a response of two images, the JPEG first:
\* the JPEG is the frame's image
C11_Witness ==
    /\ op.kind = "none" /\ sent.click = "start"
    /\ sent.answer = Answer(<<InlinePart(ImageB), InlinePart(ImageA)>>)
    /\ card.startFrame.imageUrl = DataUrl("image/jpeg", "iB")

-----------------------------------------------------------------------------
(* SpecVideo: one SceneCard's video generation: handleGenerateVideo and     *)
(* generateVideoForScene (submit, poll every 10 s, fetch the asset), each   *)
(* remote call through callApiWithRetry with its default parameters.        *)

\* the bound on the status polls of one job: the MaxPolls-th poll is answered done
MaxPolls == 3

PollInterval == 10000

VIDEO_GENERATION_MESSAGES ==
    << "Warming up the virtual cameras...",
       "Analyzing scene depth and parallax...",
       "Rendering cinematic motion vectors...",
       "Applying digital film grain...",
       "Interpolating keyframes for smooth motion...",
       "This can take a few minutes, good things come to those who wait.",
       "Finalizing color grade and composition...",
       "Almost there, adding the final touches..." >>

\* VIDEO_GENERATION_MESSAGES.indexOf(m), counted from 1; 0 when absent
IndexOfMessage(m) ==
    IF \E n \in DOMAIN VIDEO_GENERATION_MESSAGES : VIDEO_GENERATION_MESSAGES[n] = m
    THEN CHOOSE n \in DOMAIN VIDEO_GENERATION_MESSAGES : VIDEO_GENERATION_MESSAGES[n] = m
    ELSE 0

\* the interval's update of currentLoadingMessage
NextLoadingMessage(prev) ==
    VIDEO_GENERATION_MESSAGES[(IndexOfMessage(prev) % Len(VIDEO_GENERATION_MESSAGES)) + 1]

\* the operation the video model returns: still running, done with a download
\* link, done without one
OpNotDone == [done |-> FALSE, uri |-> <<>>]
OpDoneUri == [done |-> TRUE, uri |-> <<"https://video/1">>]
OpDoneNoUri == [done |-> TRUE, uri |-> <<>>]
Operations == {OpNotDone, OpDoneUri, OpDoneNoUri}

\* what a remote video call throws
VideoThrowables ==
    { [isError |-> TRUE, message |-> m] : m \in {MsgQuota, MsgPlain} }

\* the asset fetch: a 2xx response, another response, a network error
FetchOutcomes == {"ok", "notOk", "rejected"}
BlobUrl == <<"blob:", "video/1">>

NoLinkError ==
    Thrown(TRUE, Msg("Video generation completed, but no download link was found.",
                     FALSE, "none", FALSE, "", 0, ""), 0)
DownloadError ==
    Thrown(TRUE, Msg("Failed to download the generated video file.",
                     FALSE, "none", FALSE, "", 0, ""), 0)
NetworkError ==
    Thrown(TRUE, Msg("Failed to fetch", FALSE, "none", FALSE, "", 0, ""), 0)

\* the mutant of CanGenerateVideo: the end frame's image is not asked for
CanGenerateVideoStartOnly(c) ==
    /\ c.startFrame.imageUrl # NoImage
    /\ c.videoState.status = "IDLE"

\* canGenerateVideo, and the Generate Video button's negated disabled attribute
CanGenerateVideo(c) ==
    /\ c.startFrame.imageUrl # NoImage
    /\ c.endFrame.imageUrl # NoImage
    /\ c.videoState.status = "IDLE"
VideoButtonEnabled(c) == CanGenerateVideo(c) /\ c.videoState.status # "GENERATING"

\* handleGenerateVideo past its check, up to the await of the submit in
\* generateVideoForScene
VideoStarted(c, v) ==
    [card |-> [c EXCEPT !.videoState = [status |-> "GENERATING", url |-> NoImage,
                                        message |-> VIDEO_GENERATION_MESSAGES[1]],
                        !.error = <<>>],
     video |-> [NoJob EXCEPT !.pc = "submit",
                             !.image = [imageBytes |-> GetBase64Data(c.startFrame.imageUrl).data,
                                        mimeType |-> <<"image/png">>]]]

\* the mutant of HandleGenerateVideo: no check of the start frame image
HandleGenerateVideoUnchecked(c, v) == VideoStarted(c, v)

\* handleGenerateVideo, up to its first await
HandleGenerateVideo(c, v) ==
    IF c.startFrame.imageUrl = NoImage
    THEN [card |-> [c EXCEPT !.error = <<"Please generate the start frame image first.">>],
          video |-> v]
    ELSE VideoStarted(c, v)

\* the mutant of VideoSucceeded: Done without the URL
VideoSucceededNoUrl(c, v, videoUrl) ==
    [card |-> [c EXCEPT !.videoState = [status |-> "DONE", url |-> NoImage, message |-> ""]],
     video |-> [v EXCEPT !.pc = "resolved"]]

\* generateVideoForScene returned videoUrl
VideoSucceeded(c, v, videoUrl) ==
    [card |-> [c EXCEPT !.videoState = [status |-> "DONE", url |-> videoUrl, message |-> ""]],
     video |-> [v EXCEPT !.pc = "resolved"]]

\* generateVideoForScene threw err: the catch of handleGenerateVideo
VideoFailed(c, v, err) ==
    LET message == IF err.isError THEN err.message.raw ELSE "An unknown error occurred."
    IN [card |-> [c EXCEPT
                    !.error = <<message,
                                " This is an experimental feature and may fail. Please try again.">>,
                    !.videoState = [status |-> "ERROR", url |-> NoImage, message |-> ""]],
        video |-> [v EXCEPT !.pc = "rejected"]]

\* the mutant of VideoAnswered: a job that is not done is polled again at once
VideoAnsweredPollsAtOnce(c, v, operation) ==
    IF ~operation.done
    THEN [card |-> c, video |-> [v EXCEPT !.pc = "poll", !.w = WInit, !.statusCalls = @ + 1]]
    ELSE IF operation.uri = <<>>
         THEN VideoFailed(c, v, NoLinkError)
         ELSE [card |-> c, video |-> [v EXCEPT !.pc = "fetch", !.fetches = @ + 1]]

\* the mutant of VideoAnswered: the asset is fetched whether or not there is a link
VideoAnsweredFetchesAnyway(c, v, operation) ==
    IF ~operation.done
    THEN [card |-> c, video |-> [v EXCEPT !.pc = "sleep", !.w = WInit]]
    ELSE [card |-> c, video |-> [v EXCEPT !.pc = "fetch", !.fetches = @ + 1]]

\* the mutant of VideoAnswered: a job that is not done is submitted again
VideoAnsweredSubmitsAgain(c, v, operation) ==
    IF ~operation.done
    THEN [card |-> c, video |-> [v EXCEPT !.pc = "submit", !.w = WInit]]
    ELSE IF operation.uri = <<>>
         THEN VideoFailed(c, v, NoLinkError)
         ELSE [card |-> c, video |-> [v EXCEPT !.pc = "fetch", !.fetches = @ + 1]]

\* the submit or a poll returned operation: the while loop, the download link
\* check and the fetch of generateVideoForScene
VideoAnswered(c, v, operation) ==
    IF ~operation.done
    THEN [card |-> c, video |-> [v EXCEPT !.pc = "sleep", !.w = WInit]]
    ELSE IF operation.uri = <<>>
         THEN VideoFailed(c, v, NoLinkError)
         ELSE [card |-> c, video |-> [v EXCEPT !.pc = "fetch", !.fetches = @ + 1]]

\* the cards a video can be asked of: the fresh card, and the card after its
\* start frame, or both its frames, have been generated
VideoCards ==
    LET fresh == CardInit(BasePrompt(TheScene, TheCatalog.items, STYLES[1]))
        url == DataUrl("image/png", "iA")
    IN { [card |-> fresh, sent |-> NoneSent],
         [card |-> [fresh EXCEPT !.startFrame.imageUrl = url],
          sent |-> [click |-> "start", frames |-> {"start"},
                    answer |-> Answer(<<InlinePart(ImageA)>>)]],
         [card |-> [fresh EXCEPT !.startFrame.imageUrl = url, !.endFrame.imageUrl = url],
          sent |-> [click |-> "images", frames |-> {"start", "end"},
                    answer |-> Answer(<<InlinePart(ImageA)>>)]] }

InitVideo ==
    /\ characters = TheCatalog
    /\ selectedStyle = STYLES[1]
    /\ \E x \in VideoCards : card = x.card /\ sent = x.sent
    /\ op = NoOp
    /\ video = NoJob
    /\ IdleRetry /\ IdleApp /\ IdleSheet

VideoStep(x) ==
    /\ card' = x.card
    /\ video' = x.video
    /\ UNCHANGED <<op, sent, characters, selectedStyle, retryVars, sheetVars, other, appVars>>

\* the button Generate Video: handleGenerateVideo.  The button is enabled by
\* canGenerateVideo; the handler is also invoked on a card without start frame
\* image, which its own check answers.
ClickGenerateVideo ==
    /\ VideoButtonEnabled(card) \/ card.startFrame.imageUrl = NoImage
    /\ VideoStep(HandleGenerateVideo(card, video))

\* the video model answers the submit or the poll in flight
VideoResolve ==
    /\ video.pc \in {"submit", "poll"} /\ video.w.pc = "call"
    /\ \E operation \in Operations :
          LET v == IF video.pc = "submit"
                   THEN [video EXCEPT !.w = WReturn(video.w, operation),
                                      !.submitted = <<operation>>]
                   ELSE [video EXCEPT !.w = WReturn(video.w, operation),
                                      !.answers = Append(@, operation)]
          IN /\ operation.done \/ Len(v.answers) < MaxPolls
             /\ VideoStep(VideoAnswered(card, v, operation))

\* the remote video call fails
VideoCatch ==
    /\ video.pc \in {"submit", "poll"} /\ video.w.pc = "call"
    /\ \E thrown \in VideoThrowables, j \in SomeJitter :
          LET w1 == WCatch(video.w, thrown, j, DefaultInitialDelay) IN
          IF w1.pc = "thrown"
          THEN VideoStep(VideoFailed(card, [video EXCEPT !.w = w1], w1.error))
          ELSE VideoStep([card |-> card, video |-> [video EXCEPT !.w = w1]])

\* the backoff timer fires: the call is made again, or lastError is thrown
VideoWake ==
    /\ video.pc \in {"submit", "poll"} /\ video.w.pc = "wait"
    /\ LET w1 == WWake(video.w, DefaultMaxRetries) IN
       IF w1.pc = "thrown"
       THEN VideoStep(VideoFailed(card, [video EXCEPT !.w = w1], w1.error))
       ELSE VideoStep([card |-> card,
                       video |-> [video EXCEPT
                                    !.w = w1,
                                    !.statusCalls = IF video.pc = "poll" THEN @ + 1 ELSE @]])

\* the 10 s timer of the poll loop fires: getVideosOperation is called
VideoSleepOver ==
    /\ video.pc = "sleep"
    /\ VideoStep([card |-> card,
                  video |-> [video EXCEPT !.pc = "poll", !.w = WInit,
                                          !.waits = @ + 1, !.statusCalls = @ + 1]])

\* the fetch of the asset settles (and the blob of a 2xx response is read)
VideoFetched ==
    /\ video.pc = "fetch"
    /\ \E outcome \in FetchOutcomes :
          CASE outcome = "ok" -> VideoStep(VideoSucceeded(card, video, BlobUrl))
            [] outcome = "notOk" -> VideoStep(VideoFailed(card, video, DownloadError))
            [] outcome = "rejected" -> VideoStep(VideoFailed(card, video, NetworkError))

\* the period of the loading message's interval, in ms
MessageInterval == 4000

\* the mutant of MessageIntervalRuns: the interval is not cleared when the
\* video is done or has failed
MessageIntervalRunsOnceStarted(c) == c.videoState.status # "IDLE"

\* the effect on videoState.status: the interval is set while the status is
\* GENERATING and cleared by the effect's cleanup when the status changes
MessageIntervalRuns(c) == c.videoState.status = "GENERATING"

\* the 4 s interval of the loading message, while the video is generating
MessageTick ==
    /\ MessageIntervalRuns(card)
    /\ card' = [card EXCEPT !.currentLoadingMessage = NextLoadingMessage(@)]
    /\ UNCHANGED <<video, op, sent, characters, selectedStyle, retryVars, sheetVars, other, appVars>>

NextVideo ==
    \/ ClickGenerateVideo
    \/ VideoResolve
    \/ VideoCatch
    \/ VideoWake
    \/ VideoSleepOver
    \/ VideoFetched
    \/ MessageTick

SpecVideo == InitVideo /\ [][NextVideo]_vars

-----------------------------------------------------------------------------
(* Claims about the video job of a scene card, checked under SpecVideo *)

\* C12: invoking video generation for a scene whose start frame has no image
\* fails at once: no remote call is issued, the video state (status, url,
\* message) is unchanged, and only the scene's error message is set.
C12_NoStartFrameNoVideo ==
    [][(ClickGenerateVideo /\ card.startFrame.imageUrl = NoImage) =>
          /\ video' = video
          /\ card'.videoState = card.videoState
          /\ card' = [card EXCEPT !.error = <<"Please generate the start frame image first.">>]
      ]_vars

\* video generation was invoked on the fresh card
C12_Witness ==
    /\ card.error = <<"Please generate the start frame image first.">>
    /\ card.startFrame.imageUrl = NoImage
    /\ card.videoState = [status |-> "IDLE", url |-> NoImage, message |-> ""]
    /\ video = NoJob

\* C13: in every reachable video state, status Done implies a non-null url and
\* status Error, Idle or Generating implies a null url; and the status changes
\* only from Idle to Generating, from Generating to Done or to Error, and from
\* Done or Error to Generating.
C13_VideoStateMachine ==
    /\ [](/\ card.videoState.status \in {"IDLE", "GENERATING", "DONE", "ERROR"}
          /\ card.videoState.status = "DONE" => card.videoState.url # NoImage
          /\ card.videoState.status # "DONE" => card.videoState.url = NoImage)
    /\ [][card'.videoState.status # card.videoState.status =>
             <<card.videoState.status, card'.videoState.status>> \in
                 { <<"IDLE", "GENERATING">>, <<"GENERATING", "DONE">>,
                   <<"GENERATING", "ERROR">>, <<"DONE", "GENERATING">>,
                   <<"ERROR", "GENERATING">> }]_vars

\* a video is done and has its URL
C13_Witness ==
    /\ card.videoState.status = "DONE"
    /\ card.videoState.url = BlobUrl
    /\ video.pc = "resolved"

\* the answers to the status polls are n times not-done, then done with a link,
\* and every status call was answered
PolledUntilDone(v) ==
    /\ v.answers # <<>>
    /\ \A k \in 1..(Len(v.answers) - 1) : v.answers[k] = OpNotDone
    /\ v.answers[Len(v.answers)] = OpDoneUri
    /\ v.statusCalls = Len(v.answers)

\* C14, as stated: for status-poll responses n times not-done followed by
\* done-with-uri, generateVideoForScene elapses exactly n waits of 10 s and
\* issues exactly n+1 status calls before resolving (2 waits and 3 status
\* calls for [not-done, not-done, done-with-uri]), and the video is Done.
C14_WaitsOneLessThanPolls ==
    (video.pc = "resolved" /\ PolledUntilDone(video)) =>
        /\ video.waits = Len(video.answers) - 1
        /\ video.statusCalls = Len(video.answers)
        /\ card.videoState.status = "DONE"

\* C14, amended: every status call follows a wait of 10 s, the first one too.
\* For status-poll responses n times not-done followed by done-with-uri the
\* function elapses exactly n+1 waits and issues exactly n+1 status calls
\* before resolving (3 waits and 3 status calls for [not-done, not-done,
\* done-with-uri]), and the video is Done.
C14_WaitBeforeEveryPoll ==
    (video.pc = "resolved" /\ PolledUntilDone(video)) =>
        /\ video.submitted = <<OpNotDone>>
        /\ video.waits = Len(video.answers)
        /\ video.statusCalls = Len(video.answers)
        /\ card.videoState.status = "DONE"

\* the polls of a resolved job were answered not-done, not-done, done with a link
C14_Witness ==
    /\ video.pc = "resolved"
    /\ video.answers = <<OpNotDone, OpNotDone, OpDoneUri>>
    /\ video.statusCalls = 3
    /\ video.waits = 3
    /\ card.videoState.status = "DONE"

\* the operation the step has received, <<>> when the step received none
Received(v, v1) ==
    IF v1.submitted # v.submitted THEN v1.submitted
    ELSE IF Len(v1.answers) > Len(v.answers) THEN <<v1.answers[Len(v1.answers)]>>
    ELSE <<>>

\* C15: when a video job completes without a download URI, or the asset fetch
\* does not succeed, or the submit or a poll fails fatally, the video state goes
\* from Generating to Error with a null url; no asset fetch is attempted when
\* the URI is absent.
C15_VideoFailures ==
    [][/\ Received(video, video') = <<OpDoneNoUri>> =>
            /\ video'.pc = "rejected"
            /\ video'.fetches = 0
            /\ card'.error[1] = "Video generation completed, but no download link was found."
       /\ (VideoFetched /\ card'.videoState.status # "DONE") => video'.pc = "rejected"
       /\ ((VideoCatch \/ VideoWake) /\ video'.w.pc = "thrown") => video'.pc = "rejected"
       /\ (video.pc # "rejected" /\ video'.pc = "rejected") =>
            /\ card.videoState.status = "GENERATING"
            /\ card'.videoState = [status |-> "ERROR", url |-> NoImage, message |-> ""]
            /\ video'.fetches = video.fetches
            /\ Len(card'.error) = 2
      ]_vars

\* a job that polled once completed without a download link and is in Error
C15_Witness ==
    /\ video.pc = "rejected"
    /\ video.answers = <<OpDoneNoUri>>
    /\ video.fetches = 0
    /\ card.videoState = [status |-> "ERROR", url |-> NoImage, message |-> ""]

\* C16: from a scene whose video state is Done or Error and whose start frame
\* has an image, the user can start a new video invocation.
C16_CanStartAgain ==
    (card.videoState.status \in {"DONE", "ERROR"} /\ card.startFrame.imageUrl # NoImage)
        => VideoButtonEnabled(card)

-----------------------------------------------------------------------------
(* SpecRegen: single-frame regeneration on a card whose video is idle, done  *)
(* or failed: the Regenerate buttons of the two frames and the image calls   *)
(* they start.                                                               *)

\* the cards of VideoCards, and the card with both frames after its video has
\* been generated, and after its video generation has failed at the submit
RegenCards ==
    LET both == CHOOSE x \in VideoCards : x.card.endFrame.imageUrl # NoImage
        started == VideoStarted(both.card, NoJob)
        submitted == [started.video EXCEPT !.w = WReturn(@, OpDoneUri),
                                           !.submitted = <<OpDoneUri>>]
        answered == VideoAnswered(started.card, submitted, OpDoneUri)
        done == VideoSucceeded(answered.card, answered.video, BlobUrl)
        thrown == CHOOSE t \in VideoThrowables : ~IsRateLimitError(t)
        caught == [started.video EXCEPT
                     !.w = WCatch(@, thrown, 500, DefaultInitialDelay)]
        failed == VideoFailed(started.card, caught, caught.w.error)
    IN { [card |-> x.card, sent |-> x.sent, video |-> NoJob] : x \in VideoCards }
       \cup { [card |-> done.card, sent |-> both.sent, video |-> done.video],
               [card |-> failed.card, sent |-> both.sent, video |-> failed.video] }

InitRegen ==
    /\ characters = TheCatalog
    /\ selectedStyle = STYLES[1]
    /\ \E x \in RegenCards : card = x.card /\ sent = x.sent /\ video = x.video
    /\ op = NoOp
    /\ IdleRetry /\ IdleApp /\ IdleSheet

NextRegen ==
    \/ ClickRegenerateStart
    \/ ClickRegenerateEnd
    \/ EditStartPrompt
    \/ EditEndPrompt
    \/ FrameResolve
    \/ FrameCatch
    \/ FrameWake

SpecRegen == InitRegen /\ [][NextRegen]_vars

\* a step of the regeneration of frame kind: the click on its Regenerate button,
\* or a step of the image call that click has started
RegenStep(kind) ==
    \/ IF kind = "start" THEN ClickRegenerateStart ELSE ClickRegenerateEnd
    \/ /\ op.kind = kind /\ ~op.combined
       /\ FrameResolve \/ FrameCatch \/ FrameWake

\* C17: regenerating one frame of a scene, any number of times in sequence,
\* replaces only that frame's image by the latest result and leaves the sibling
\* frame's prompt and image and the scene's video state unchanged; regenerating
\* the start frame issues no remote call for the end frame.
C17_RegenerationIsLocal ==
    [][\A kind \in {"start", "end"} :
         RegenStep(kind) =>
           LET sibling == IF kind = "start" THEN "end" ELSE "start" IN
           /\ FrameOf(card', sibling) = FrameOf(card, sibling)
           /\ FrameOf(card', kind).prompt = FrameOf(card, kind).prompt
           /\ card'.videoState = card.videoState /\ video' = video
           /\ sibling \notin sent'.frames
           /\ op'.kind \in {kind, "none"}
           /\ FrameOf(card', kind).imageUrl # FrameOf(card, kind).imageUrl =>
                 /\ FrameResolve
                 /\ FrameOf(card', kind).imageUrl = FirstImage(sent'.answer.parts)
      ]_vars

\* the start frame has been regenerated to the JPEG on a card whose video is done
\* and whose end frame still has the PNG it had
C17_Witness ==
    /\ op.kind = "none" /\ sent.click = "start"
    /\ card.startFrame.imageUrl = DataUrl("image/jpeg", "iB")
    /\ card.endFrame.imageUrl = DataUrl("image/png", "iA")
    /\ card.videoState.status = "DONE"

-----------------------------------------------------------------------------
(* More claims about the frame workflow, checked under SpecScene *)

\* C18: every image generation call for a frame, in a single-frame regeneration
\* or in the combined workflow, sends the frame's prompt text as it is at the
\* moment the user triggers it, the user's latest edit included, never the
\* derived prompt when the two differ.  At a click the request in flight has
\* the prompt the frame has at the click; the end-frame request of the combined
\* workflow has the prompt the end frame had at the click; a request sent again
\* after a backoff has the prompt of the first; and the text part of the request
\* is that prompt with the aspect ratio appended.
C18_SendsPromptAtClick ==
    [][/\ (op.kind = "none" /\ op'.kind # "none") =>
            /\ op'.prompt = FrameOf(card, op'.kind).prompt
            /\ op'.combined => op'.endPrompt = card.endFrame.prompt
       /\ (op.kind = "start" /\ op'.kind = "end") => op'.prompt = op.endPrompt
       /\ (op.kind # "none" /\ op'.kind = op.kind) =>
            op'.prompt = op.prompt /\ op'.parts = op.parts /\ op'.endPrompt = op.endPrompt
       /\ op'.kind # "none" =>
            \E n \in DOMAIN op'.parts :
                op'.parts[n] = TextPart(op'.prompt \o <<".", " ", "Aspect", " ", "ratio:",
                                                       " ", "16:9", ".">>)
      ]_vars

\* the end frame of a combined run is requested with the prompt the user typed,
\* which is not the derived one
C18_Witness ==
    /\ op.kind = "end" /\ op.combined
    /\ op.prompt \in UserPrompts
    /\ card.endFrame.prompt = op.prompt
    /\ op.prompt # EndPrompt(BasePrompt(TheScene, characters.items, selectedStyle))

\* sub occurs in s
Contains(s, sub) ==
    \E i \in 1..(Len(s) - Len(sub) + 1) : SubSeq(s, i, i + Len(sub) - 1) = sub

\* what a derived prompt says of the catalog entry c: its name as the catalog
\* writes it, and then the reference to its portrait or its description
SaysOf(c) ==
    c.name \o (IF c.imageUrl # NoImage THEN <<" ", "who", " ", "looks">>
               ELSE <<" ", "(">> \o c.description \o <<")">>)

\* C19: matching of a scene's character names with the catalog is
\* case-insensitive in every place it is done.  The scene lists Al and the
\* catalog's first entry is al: a prompt the card has derived speaks of the
\* catalog's al and does not fall back to the scene's Al, and once al has a
\* portrait the conditioning lists of the start frame and of the end frame,
\* built at a click or within the combined workflow, contain it.
C19_CaseInsensitiveEverywhere ==
    /\ [](\A f \in {card.startFrame, card.endFrame} :
            f.prompt \notin UserPrompts =>
                /\ Contains(f.prompt, SaysOf(characters.items[1]))
                /\ ~Contains(f.prompt, NameAl))
    /\ [][/\ (op.kind = "none" /\ op'.kind # "none"
               /\ characters.items[1].imageUrl # NoImage) =>
                \E n \in DOMAIN op'.images :
                    op'.images[n] = InlinePart(GetBase64Data(characters.items[1].imageUrl))
          /\ (op.kind = "start" /\ op'.kind = "end"
               /\ op.chars[1].imageUrl # NoImage) =>
                \E n \in DOMAIN op'.images :
                    op'.images[n] = InlinePart(GetBase64Data(op.chars[1].imageUrl))
         ]_vars

\* al has a portrait; the end frame of a combined run is requested with it, and
\* the start prompt the card has derived refers to al's portrait
C19_Witness ==
    /\ characters.items[1].name = Nameal
    /\ characters.items[1].imageUrl = PortraitPng
    /\ op.kind = "end" /\ op.combined
    /\ \E n \in DOMAIN op.images : op.images[n] = InlinePart(GetBase64Data(PortraitPng))
    /\ Contains(card.startFrame.prompt, Nameal \o <<" ", "who", " ", "looks">>)

-----------------------------------------------------------------------------
(* SpecPrompt: the prompts a scene card derives, for scenes of several casts *)
(* and catalogs that grow portraits.  scenes holds the one scene of the      *)
(* card; all scenes share TheScene's other fields.                           *)

\* the character lists of the scenes: none, a name the catalog lacks, two such
\* names, a name of the catalog in another case, a mix
SceneCasts ==
    { <<>>, <<NameDi>>, <<NameDi, <<"E", "d">> >>, <<NameAl>>, <<NameBo, NameAl, NameDi>> }

\* the catalogs of the analysis: none, and al, Bo, Cy without portraits
PromptCatalogs ==
    { EmptyArray,
      [isArray |-> TRUE,
       items |-> <<CharacterOf(1, Nameal), CharacterOf(1, NameBo), CharacterOf(1, NameCy)>>] }

\* the scene of the card
CardScene == scenes.items[1]

InitPrompt ==
    /\ \E cast \in SceneCasts :
          scenes = [isArray |-> TRUE, items |-> <<[TheScene EXCEPT !.characters = cast]>>]
    /\ characters \in PromptCatalogs
    /\ selectedStyle \in Range(STYLES)
    /\ card = CardInit(BasePrompt(CardScene, characters.items, selectedStyle))
    /\ op = NoOp /\ sent = NoneSent /\ video = NoJob
    /\ script = <<>> /\ isLoading = FALSE /\ appError = <<>> /\ run = 0
    /\ tasks = <<>> /\ joined = FALSE /\ stale = {}
    /\ IdleRetry /\ IdleSheet

\* a CharacterCard attaches a portrait, and the card's effect on the new catalog
PromptUpdateCharacter ==
    \E n \in DOMAIN characters.items, url \in {PortraitPng, PortraitNoType} :
        /\ characters' =
              HandleUpdateCharacter(characters, [characters.items[n] EXCEPT !.imageUrl = url])
        /\ card' = PromptsEffect(card,
                                 BasePrompt(CardScene, characters.items, selectedStyle),
                                 BasePrompt(CardScene, characters'.items, selectedStyle))
        /\ UNCHANGED <<scenes, selectedStyle, op, sent, video, script, isLoading, appError,
                       run, tasks, joined, stale, retryVars, sheetVars, other>>

\* StyleSelector: onSelectStyle, and the card's effect on the new style
PromptSelectStyle ==
    \E n \in DOMAIN STYLES :
        /\ selectedStyle' = STYLES[n]
        /\ card' = PromptsEffect(card,
                                 BasePrompt(CardScene, characters.items, selectedStyle),
                                 BasePrompt(CardScene, characters.items, selectedStyle'))
        /\ UNCHANGED <<scenes, characters, op, sent, video, script, isLoading, appError,
                       run, tasks, joined, stale, retryVars, sheetVars, other>>

NextPrompt ==
    \/ PromptUpdateCharacter
    \/ PromptSelectStyle

SpecPrompt == InitPrompt /\ [][NextPrompt]_vars

\* the base prompt the card has composed: its end prompt without the shot text
ComposedBase ==
    SubSeq(card.endFrame.prompt, 1, Len(card.endFrame.prompt) - Len(EndPrompt(<<>>)))

\* s ends with suffix
EndsWith(s, suffix) ==
    /\ Len(suffix) <= Len(s)
    /\ SubSeq(s, Len(s) - Len(suffix) + 1, Len(s)) = suffix

\* every whitespace run of s is one space, and s has none at its ends
Collapsed(s) ==
    \A i \in DOMAIN s :
        IsSpace(s[i]) => /\ s[i] = " "
                         /\ 1 < i /\ i < Len(s)
                         /\ ~IsSpace(s[i + 1])

\* no name of the scene is, in any case, a name of the catalog
NoneMatched ==
    \A n \in DOMAIN CardScene.characters, m \in DOMAIN characters.items :
        ToLowerCase(CardScene.characters[n]) # ToLowerCase(characters.items[m].name)

\* C20, as stated: for every scene none of whose listed names matches a catalog
\* entry, a scene that lists no characters included, the composed base prompt
\* has its whitespace runs collapsed and ends with 'Characters present: None.'.
C20_UnmatchedEndsWithNone ==
    NoneMatched =>
        /\ Collapsed(ComposedBase)
        /\ EndsWith(ComposedBase, <<"Characters", " ", "present:", " ", "None", ".">>)

\* C20, amended: the composed base prompt always has its whitespace runs
\* collapsed; it ends with 'Characters present: None.' for a scene that lists no
\* characters and not for a scene that lists names; for a scene that lists
\* names none of which matches a catalog entry it ends with 'Characters
\* present: ' followed by those names as the scene writes them, joined by ', ',
\* and a full stop.
C20_NoneOnlyWithoutNames ==
    /\ Collapsed(ComposedBase)
    /\ EndsWith(ComposedBase, <<"Characters", " ", "present:", " ", "None", ".">>)
          <=> CardScene.characters = <<>>
    /\ NoneMatched /\ CardScene.characters # <<>> =>
          EndsWith(ComposedBase,
                   <<"Characters", " ", "present:", " ">> \o Join(CardScene.characters)
                   \o <<".">>)

\* a card has composed the prompt of a scene whose only name, Di, matches
\* nobody of a catalog of three, one of them with a portrait by now: the prompt
\* ends with the name, not with None
C20_Witness ==
    /\ CardScene.characters = <<NameDi>>
    /\ Len(characters.items) = 3
    /\ characters.items[2].imageUrl # NoImage
    /\ NoneMatched
    /\ EndsWith(ComposedBase, <<"Characters", " ", "present:", " ", "D", "i", ".">>)

-----------------------------------------------------------------------------
(* SpecPortrait: the CharacterSheet.  The CharacterCards of the catalog     *)
(* generate portraits (generateImageForPrompt through callApiWithRetry) and  *)
(* read uploaded files (FileReader); the App stores what they attach; the    *)
(* script is analysed a second time while portrait calls are in flight.  The *)
(* two extractions of that analysis are taken as one step here.              *)

\* the portrait calls (generations and file reads) explored per behaviour
MaxPortraitCalls == 2

\* the catalog of the first analysis: al and Bo, without portraits
FirstCatalog ==
    [isArray |-> TRUE, items |-> <<CharacterOf(1, Nameal), CharacterOf(1, NameBo)>>]

\* the catalog of the second analysis: Bo again, and Al written with a capital
SecondCatalog ==
    [isArray |-> TRUE, items |-> <<CharacterOf(2, NameBo), CharacterOf(2, NameAl)>>]

\* the files a user picks, by what readAsDataURL makes of them
Files == {PortraitPng, PortraitNoType}

\* how a file read ends: the load event, or the error event; loadend follows both
ReadOutcomes == {"load", "error"}

\* the parts of the image model's response to a portrait request
PortraitResponses == { <<>>, <<TextPart(<<"here">>), InlinePart(ImageB)>> }

\* the style the user picks for the character sheet
PortraitStyles == {STYLES[1]}

\* useState of a CharacterCard as it mounts
CharacterCardInit(character) ==
    [isLoading |-> FALSE, imageUrl |-> character.imageUrl, error |-> <<>>]

\* CharacterSheet, rendered when characters.length > 0 && selectedStyle: one
\* CharacterCard per record, keyed by name
MountSheet(chars, style) ==
    IF style = NoStyle THEN <<>>
    ELSE [n \in DOMAIN chars.items |-> CharacterCardInit(chars.items[n])]

\* handleGeneratePortrait: prompt
PortraitPrompt(character, style) ==
    <<"Character", " ", "portrait", " ", "of", " ">> \o character.name \o <<",", " ">>
    \o character.description \o <<".", " ", "Style:", " ">> \o style.promptModifier
    \o <<".", " ", "Centered,", " ", "high-detail,", " ", "neutral", " ", "background.">>

\* a portrait call in flight, started as the seq-th by the card at position n
\* of the catalog of analysis r, with the character prop of that render
PortraitCall(kind, r, n, character, seq, parts, file) ==
    [kind |-> kind, run |-> r, n |-> n, character |-> character, seq |-> seq,
     w |-> WInit, parts |-> parts, file |-> file]

\* s without its k-th element
RemoveAt(s, k) == SubSeq(s, 1, k - 1) \o SubSeq(s, k + 1, Len(s))

\* the card a call belongs to is still mounted: a state update of an unmounted
\* component is dropped
Mounted(sh, r, o) == sh # <<>> /\ o.run = r

\* handleGeneratePortrait up to the await of generateImageForPrompt
BeginPortrait(sh, r, n, character, style, seq) ==
    [sheet |-> [sh EXCEPT ![n].isLoading = TRUE, ![n].error = <<>>],
     call |-> PortraitCall("generate", r, n, character, seq,
                           RequestParts(PortraitPrompt(character, style), "1:1", <<>>),
                           <<>>)]

\* handleFileChange with a file chosen: up to reader.readAsDataURL(file)
BeginRead(sh, r, n, character, seq, file) ==
    [sheet |-> [sh EXCEPT ![n].error = <<>>],
     call |-> PortraitCall("read", r, n, character, seq, <<>>, file)]

\* onUpdateCharacter(updatedCharacter): App.handleUpdateCharacter on the
\* catalog of the moment
Attach(chars, log, o, imageUrl) ==
    LET updatedCharacter == [o.character EXCEPT !.imageUrl = imageUrl] IN
    [characters |-> HandleUpdateCharacter(chars, updatedCharacter),
     plog |-> [log EXCEPT !.updates = @ + 1, !.seq = o.seq,
                          !.updatedCharacter = updatedCharacter]]

\* the mutant of PortraitSucceeded: the portrait is stored in the card only
PortraitSucceededLocally(sh, chars, log, r, o, newImageUrl) ==
    [sheet |-> IF Mounted(sh, r, o)
               THEN [sh EXCEPT ![o.n].imageUrl = newImageUrl, ![o.n].isLoading = FALSE]
               ELSE sh,
     characters |-> chars,
     plog |-> log]

\* generateImageForPrompt returned newImageUrl: the rest of handleGeneratePortrait
PortraitSucceeded(sh, chars, log, r, o, newImageUrl) ==
    LET a == Attach(chars, log, o, newImageUrl) IN
    [sheet |-> IF Mounted(sh, r, o)
               THEN [sh EXCEPT ![o.n].imageUrl = newImageUrl, ![o.n].isLoading = FALSE]
               ELSE sh,
     characters |-> a.characters,
     plog |-> a.plog]

\* generateImageForPrompt threw err: catch and finally of handleGeneratePortrait
PortraitFailed(sh, chars, log, r, o, err) ==
    [sheet |-> IF Mounted(sh, r, o)
               THEN [sh EXCEPT ![o.n].error = <<"Image generation failed: ",
                                                GetApiErrorMessage(err)>>,
                               ![o.n].isLoading = FALSE]
               ELSE sh,
     characters |-> chars,
     plog |-> log]

\* the FileReader's events: onerror when the read failed, and onloadend, which
\* fires after a load and after an error alike with reader.result (null after
\* an error)
ReadEnded(sh, chars, log, r, o, outcome) ==
    LET result == IF outcome = "load" THEN o.file ELSE NoImage
        sh1 == IF outcome = "error" /\ Mounted(sh, r, o)
               THEN [sh EXCEPT ![o.n].error = <<"Failed to read the selected file.">>]
               ELSE sh
        a == Attach(chars, log, o, result)
    IN [sheet |-> IF Mounted(sh1, r, o) THEN [sh1 EXCEPT ![o.n].imageUrl = result] ELSE sh1,
        characters |-> a.characters,
        plog |-> a.plog]

InitPortrait ==
    /\ script = <<"\n", "INT.", " ", "CAFE", " ">>
    /\ scenes = EmptyArray
    /\ characters = FirstCatalog
    /\ selectedStyle \in PortraitStyles
    /\ isLoading = FALSE
    /\ appError = <<>>
    /\ run = 1
    /\ tasks = <<>>
    /\ joined = FALSE
    /\ stale = {}
    /\ sheet = MountSheet(characters, selectedStyle)
    /\ portraits = <<>>
    /\ plog = NoLog
    /\ other = <<>>
    /\ IdleRetry /\ IdleScene

PortraitStep(k, x, calls) ==
    /\ sheet' = x.sheet
    /\ characters' = x.characters
    /\ plog' = x.plog
    /\ portraits' = calls
    /\ UNCHANGED <<selectedStyle, appVars, retryVars, sceneVars, other>>

\* the button Generate / Regenerate of a card (disabled while isLoading)
ClickGeneratePortrait ==
    /\ Len(plog.started) < MaxPortraitCalls
    /\ \E n \in DOMAIN sheet :
          /\ ~sheet[n].isLoading
          /\ LET x == BeginPortrait(sheet, run, n, characters.items[n], selectedStyle,
                                    Len(plog.started) + 1)
             IN /\ sheet' = x.sheet
                /\ portraits' = Append(portraits, x.call)
                /\ plog' = [plog EXCEPT
                              !.started = Append(@, <<run, characters.items[n].name>>)]
    /\ UNCHANGED <<characters, selectedStyle, appVars, retryVars, sceneVars, other>>

\* the file input of a card (its button is disabled while isLoading): onChange
\* with a file chosen
SelectFile ==
    /\ Len(plog.started) < MaxPortraitCalls
    /\ \E n \in DOMAIN sheet, file \in Files :
          /\ ~sheet[n].isLoading
          /\ LET x == BeginRead(sheet, run, n, characters.items[n],
                                Len(plog.started) + 1, file)
             IN /\ sheet' = x.sheet
                /\ portraits' = Append(portraits, x.call)
                /\ plog' = [plog EXCEPT
                              !.started = Append(@, <<run, characters.items[n].name>>)]
    /\ UNCHANGED <<characters, selectedStyle, appVars, retryVars, sceneVars, other>>

\* the image model answers a portrait request
PortraitResolve ==
    \E k \in DOMAIN portraits :
        /\ portraits[k].kind = "generate" /\ portraits[k].w.pc = "call"
        /\ \E parts \in PortraitResponses :
              LET o == [portraits[k] EXCEPT !.w = WReturn(@, parts)] IN
              IF FirstImage(parts) # NoImage
              THEN PortraitStep(k, PortraitSucceeded(sheet, characters, plog, run, o,
                                                     FirstImage(parts)),
                                RemoveAt(portraits, k))
              ELSE PortraitStep(k, PortraitFailed(sheet, characters, plog, run, o,
                                                  NoImageError),
                                RemoveAt(portraits, k))

\* the remote image call of a portrait request fails
PortraitCatch ==
    \E k \in DOMAIN portraits :
        /\ portraits[k].kind = "generate" /\ portraits[k].w.pc = "call"
        /\ \E thrown \in ImageThrowables, j \in SomeJitter :
              LET w1 == WCatch(portraits[k].w, thrown, j, DefaultInitialDelay)
                  o == [portraits[k] EXCEPT !.w = w1]
              IN IF w1.pc = "thrown"
                 THEN PortraitStep(k, PortraitFailed(sheet, characters, plog, run, o,
                                                     w1.error),
                                   RemoveAt(portraits, k))
                 ELSE PortraitStep(k, [sheet |-> sheet, characters |-> characters,
                                       plog |-> plog],
                                   [portraits EXCEPT ![k] = o])

\* the backoff timer of a portrait request fires
PortraitWake ==
    \E k \in DOMAIN portraits :
        /\ portraits[k].kind = "generate" /\ portraits[k].w.pc = "wait"
        /\ LET w1 == WWake(portraits[k].w, DefaultMaxRetries)
               o == [portraits[k] EXCEPT !.w = w1]
           IN IF w1.pc = "thrown"
              THEN PortraitStep(k, PortraitFailed(sheet, characters, plog, run, o,
                                                  w1.error),
                                RemoveAt(portraits, k))
              ELSE PortraitStep(k, [sheet |-> sheet, characters |-> characters,
                                    plog |-> plog],
                                [portraits EXCEPT ![k] = o])

\* a FileReader is through with its file
FileLoadEnd ==
    \E k \in DOMAIN portraits :
        /\ portraits[k].kind = "read"
        /\ \E outcome \in ReadOutcomes :
              PortraitStep(k, ReadEnded(sheet, characters, plog, run, portraits[k], outcome),
                           RemoveAt(portraits, k))

\* handleAnalyzeScript of the script again, up to its await: the catalog and
\* the style are cleared, so the CharacterSheet unmounts
PortraitAnalyzeStart ==
    /\ ~isLoading /\ Trim(script) # <<>>
    /\ run < MaxRuns
    /\ isLoading' = TRUE
    /\ appError' = <<>>
    /\ scenes' = EmptyArray
    /\ characters' = EmptyArray
    /\ selectedStyle' = NoStyle
    /\ run' = run + 1
    /\ sheet' = <<>>
    /\ UNCHANGED <<script, tasks, joined, stale, portraits, plog, retryVars, sceneVars, other>>

\* handleAnalyzeScript past its await, both extractions fulfilled
PortraitAnalyzeDone ==
    /\ isLoading
    /\ scenes' = EmptyArray
    /\ characters' = SecondCatalog
    /\ isLoading' = FALSE
    /\ UNCHANGED <<script, selectedStyle, appError, run, tasks, joined, stale, sheetVars,
                   retryVars, sceneVars, other>>

\* StyleSelector (rendered when characters.length > 0): onSelectStyle; with the
\* first style chosen after an analysis the CharacterSheet mounts
PortraitSelectStyle ==
    /\ Len(characters.items) > 0
    /\ \E style \in PortraitStyles :
          /\ selectedStyle' = style
          /\ sheet' = IF selectedStyle = NoStyle THEN MountSheet(characters, style)
                      ELSE sheet
    /\ UNCHANGED <<characters, portraits, plog, appVars, retryVars, sceneVars, other>>

NextPortrait ==
    \/ ClickGeneratePortrait
    \/ SelectFile
    \/ PortraitResolve
    \/ PortraitCatch
    \/ PortraitWake
    \/ FileLoadEnd
    \/ PortraitAnalyzeStart
    \/ PortraitAnalyzeDone
    \/ PortraitSelectStyle

SpecPortrait == InitPortrait /\ [][NextPortrait]_vars

-----------------------------------------------------------------------------
(* Claims about the character sheet, checked under SpecPortrait *)

\* C22: attaching a portrait to a character, by generation or by upload,
\* replaces the catalog record with that name, and only that one, by the whole
\* record given, and leaves every other record, the catalog's length and its
\* order unchanged; an update whose name is not in the catalog changes nothing.
\* The record given is the card's character with the new portrait, and the
\* catalog changes by such updates and by an analysis only.
C22_WholeRecordReplacement ==
    [][/\ plog'.updates # plog.updates =>
            LET u == plog'.updatedCharacter
                named == { n \in DOMAIN characters.items : characters.items[n].name = u.name }
            IN /\ Cardinality(named) <= 1
               /\ Len(characters'.items) = Len(characters.items)
               /\ \A n \in DOMAIN characters.items :
                     characters'.items[n] =
                         IF n \in named THEN u ELSE characters.items[n]
               /\ named = {} => characters' = characters
               /\ \E k \in DOMAIN portraits :
                     /\ portraits[k].seq = plog'.seq
                     /\ u.name = portraits[k].character.name
                     /\ u.description = portraits[k].character.description
       /\ (characters' # characters /\ plog'.updates = plog.updates) =>
            (PortraitAnalyzeStart \/ PortraitAnalyzeDone)
      ]_vars

\* al has the portrait its card generated and Bo the file their card read
C22_Witness ==
    /\ run = 1 /\ plog.updates = 2
    /\ characters.items[1] =
          [CharacterOf(1, Nameal) EXCEPT !.imageUrl = DataUrl("image/jpeg", "iB")]
    /\ characters.items[2] = [CharacterOf(1, NameBo) EXCEPT !.imageUrl = PortraitPng]
    /\ Len(characters.items) = 2

-----------------------------------------------------------------------------
(* SpecTimeline: the Timeline with the SceneCards of two scenes, each with   *)
(* its own frame and video workflow, over the shared catalog and style.      *)
(* The first card's state is in card, op, sent and video, the second's in    *)
(* other.                                                                    *)

\* the scene list of the analysis: two scenes of the same cast
TheScenes ==
    [isArray |-> TRUE, items |-> <<TheScene, [TheScene EXCEPT !.scene_id = <<"S", "2">>]>>]

\* the parts of the image model's response here: none, an image
TimelineResponses == { <<>>, <<InlinePart(ImageA)>> }

\* what a remote call throws here: an Error that is not retried
TimelineThrowables == { [isError |-> TRUE, message |-> MsgPlain] }

\* the operation the video model returns here to the submit: done, with a
\* download link or without
TimelineOperations == {OpDoneUri, OpDoneNoUri}

\* the asset fetch here: a 2xx response, another response
TimelineFetchOutcomes == {"ok", "notOk"}

\* the state of the SceneCard of scene i
Slot(i) ==
    IF i = 1 THEN [card |-> card, op |-> op, sent |-> sent, video |-> video] ELSE other

\* the mutant of Put: the error message is state of the Timeline, shown by
\* every card
PutSharedError(slots, i, x) ==
    [j \in DOMAIN slots |->
        IF j = i THEN x ELSE [slots[j] EXCEPT !.card.error = x.card.error]]

\* a state update of the SceneCard of scene i: useState is per component
Put(slots, i, x) == [slots EXCEPT ![i] = x]

TimelineStep(i, x) ==
    LET slots == Put(<<Slot(1), Slot(2)>>, i, x) IN
    /\ card' = slots[1].card
    /\ op' = slots[1].op
    /\ sent' = slots[1].sent
    /\ video' = slots[1].video
    /\ other' = slots[2]
    /\ UNCHANGED <<characters, selectedStyle, appVars, retryVars, sheetVars>>

\* a step of the frame workflow of a card, its video job left as it is
WithFrames(s, x) == [card |-> x.card, op |-> x.op, sent |-> x.sent, video |-> s.video]

\* a step of the video job of a card, its frame workflow left as it is
WithVideo(s, x) == [card |-> x.card, op |-> s.op, sent |-> s.sent, video |-> x.video]

InitTimeline ==
    /\ script = <<"\n", "INT.", " ", "CAFE", " ">>
    /\ scenes = TheScenes
    /\ characters = TheCatalog
    /\ selectedStyle = STYLES[1]
    /\ isLoading = FALSE
    /\ appError = <<>>
    /\ run = 1
    /\ tasks = <<>>
    /\ joined = FALSE
    /\ stale = {}
    /\ card = CardInit(BasePrompt(TheScene, characters.items, selectedStyle))
    /\ op = NoOp
    /\ sent = NoneSent
    /\ video = NoJob
    /\ other = [card |-> card, op |-> NoOp, sent |-> NoneSent, video |-> NoJob]
    /\ sheet = <<>> /\ portraits = <<>> /\ plog = NoLog
    /\ IdleRetry

\* the button Generate Start & End Frames of a card
TimelineGenerateImages ==
    \E i \in DOMAIN scenes.items :
        LET s == Slot(i) IN
        /\ ~IsBusy(s.card)
        /\ TimelineStep(i, WithFrames(s, BeginStartFrame(s.card, characters.items, TRUE,
                                                         Clicked("images"))))

\* Regenerate of the start frame of a card
TimelineRegenerateStart ==
    \E i \in DOMAIN scenes.items :
        LET s == Slot(i) IN
        /\ ~IsBusy(s.card)
        /\ Trim(s.card.startFrame.prompt) # <<>>
        /\ TimelineStep(i, WithFrames(s, BeginStartFrame(s.card, characters.items, FALSE,
                                                         Clicked("start"))))

\* Regenerate of the end frame of a card
TimelineRegenerateEnd ==
    \E i \in DOMAIN scenes.items :
        LET s == Slot(i) IN
        /\ ~(IsBusy(s.card) \/ s.card.startFrame.imageUrl = NoImage)
        /\ Trim(s.card.endFrame.prompt) # <<>>
        /\ TimelineStep(i, WithFrames(s, BeginEndFrame(s.card, characters.items,
                                                       s.card.endFrame.prompt,
                                                       s.card.startFrame.imageUrl, FALSE,
                                                       Clicked("end"))))

\* the image model answers the frame request of a card
TimelineFrameResolve ==
    \E i \in DOMAIN scenes.items :
        LET s == Slot(i) IN
        /\ s.op.kind # "none" /\ s.op.w.pc = "call"
        /\ \E parts \in TimelineResponses :
              LET o == [s.op EXCEPT !.w = WReturn(s.op.w, parts)]
                  snt == [s.sent EXCEPT !.answer = Answer(parts)]
              IN IF FirstImage(parts) # NoImage
                 THEN TimelineStep(i, WithFrames(s, FrameSucceeded(s.card, o, snt,
                                                                   FirstImage(parts))))
                 ELSE TimelineStep(i, WithFrames(s, FrameFailed(s.card, o, snt,
                                                                NoImageError)))

\* the remote image call of a card fails
TimelineFrameCatch ==
    \E i \in DOMAIN scenes.items :
        LET s == Slot(i) IN
        /\ s.op.kind # "none" /\ s.op.w.pc = "call"
        /\ \E thrown \in TimelineThrowables, j \in SomeJitter :
              LET w1 == WCatch(s.op.w, thrown, j, DefaultInitialDelay) IN
              /\ w1.pc = "thrown"
              /\ TimelineStep(i, WithFrames(s, FrameFailed(s.card, [s.op EXCEPT !.w = w1],
                                                           s.sent, w1.error)))

\* the button Generate Video of a card: handleGenerateVideo.  The handler is
\* also invoked on a card without start frame image, which its own check
\* answers.
TimelineGenerateVideo ==
    \E i \in DOMAIN scenes.items :
        LET s == Slot(i) IN
        /\ VideoButtonEnabled(s.card) \/ s.card.startFrame.imageUrl = NoImage
        /\ TimelineStep(i, WithVideo(s, HandleGenerateVideo(s.card, s.video)))

\* the video model answers the submit of a card
TimelineVideoResolve ==
    \E i \in DOMAIN scenes.items :
        LET s == Slot(i) IN
        /\ s.video.pc = "submit" /\ s.video.w.pc = "call"
        /\ \E operation \in TimelineOperations :
              LET v == [s.video EXCEPT !.w = WReturn(s.video.w, operation),
                                       !.submitted = <<operation>>]
              IN TimelineStep(i, WithVideo(s, VideoAnswered(s.card, v, operation)))

\* the submit of a card fails
TimelineVideoCatch ==
    \E i \in DOMAIN scenes.items :
        LET s == Slot(i) IN
        /\ s.video.pc = "submit" /\ s.video.w.pc = "call"
        /\ \E thrown \in TimelineThrowables, j \in SomeJitter :
              LET w1 == WCatch(s.video.w, thrown, j, DefaultInitialDelay) IN
              /\ w1.pc = "thrown"
              /\ TimelineStep(i, WithVideo(s, VideoFailed(s.card, [s.video EXCEPT !.w = w1],
                                                          w1.error)))

\* the fetch of the asset of a card settles
TimelineVideoFetched ==
    \E i \in DOMAIN scenes.items :
        LET s == Slot(i) IN
        /\ s.video.pc = "fetch"
        /\ \E outcome \in TimelineFetchOutcomes :
              IF outcome = "ok"
              THEN TimelineStep(i, WithVideo(s, VideoSucceeded(s.card, s.video, BlobUrl)))
              ELSE TimelineStep(i, WithVideo(s, VideoFailed(s.card, s.video, DownloadError)))

NextTimeline ==
    \/ TimelineGenerateImages
    \/ TimelineRegenerateStart
    \/ TimelineRegenerateEnd
    \/ TimelineFrameResolve
    \/ TimelineFrameCatch
    \/ TimelineGenerateVideo
    \/ TimelineVideoResolve
    \/ TimelineVideoCatch
    \/ TimelineVideoFetched

SpecTimeline == InitTimeline /\ [][NextTimeline]_vars

\* a failure has been surfaced by the card whose state went from s to s1: its
\* error message is set, and is another than before
FailureSurfaced(s, s1) == s1.card.error # <<>> /\ s1.card.error # s.card.error

\* C23: a failure in one scene's pipeline (of an image call, of the video job,
\* or of the precondition of the video) changes only that scene's state: the
\* other scene's frames, video state, loading flags, error message and calls
\* in flight, and the shared scene list, character catalog and style, are
\* unchanged by the step that surfaces it.
C23_FailureStaysInItsScene ==
    [][\A i \in {1, 2} :
         FailureSurfaced(Slot(i), Slot(i)') =>
            /\ Slot(3 - i)' = Slot(3 - i)
            /\ scenes' = scenes
            /\ characters' = characters
            /\ selectedStyle' = selectedStyle
      ]_vars

\* the first scene's video was refused for want of a start frame while the
\* second scene, with both frames, is generating its video and shows no error
C23_Witness ==
    /\ card.error = <<"Please generate the start frame image first.">>
    /\ card.startFrame.imageUrl = NoImage
    /\ other.card.videoState.status = "GENERATING"
    /\ other.card.endFrame.imageUrl # NoImage
    /\ other.card.error = <<>>

\* C25: within one scene at most one of start-frame generation, end-frame
\* generation and video job is in flight at any time: no frame is generating
\* while the video state is Generating, and the two frames never generate
\* together (the claim as stated; the Generate Video button is not disabled
\* while a frame is generating).
C25_OneInFlightPerScene ==
    \A i \in {1, 2} :
        LET s == Slot(i) IN
        /\ ~(s.card.isGeneratingStartFrame /\ s.card.isGeneratingEndFrame)
        /\ ~(IsAnyImageLoading(s.card) /\ s.card.videoState.status = "GENERATING")
        /\ (s.op.kind # "none") = IsAnyImageLoading(s.card)

-----------------------------------------------------------------------------
(* More claims about the character sheet, checked under SpecPortrait *)

\* C26: a result is applied to its slot only after its originating call has
\* resolved, and when two calls for the same slot overlap, the result of the
\* earlier-started call is never applied after the later-started call has
\* begun, a portrait upload overlapping a portrait generation for the same
\* character included: the call whose result a step attaches was in flight,
\* and no call for the same character has been started after it (the claim as
\* stated; the character card does not tell its calls apart).
C26_NoStaleResult ==
    [][plog'.updates # plog.updates =>
         /\ \E k \in DOMAIN portraits : portraits[k].seq = plog'.seq
         /\ \A k \in DOMAIN plog.started :
               plog.started[k] = plog.started[plog'.seq] => k <= plog'.seq
      ]_vars

-----------------------------------------------------------------------------
(* SpecVideoLive: the video job of SpecVideo when every remote call, every   *)
(* timer and the asset fetch eventually settle.  The remote marks the job    *)
(* done by the MaxPolls-th poll at the latest.                               *)

SpecVideoLive ==
    /\ SpecVideo
    /\ WF_vars(VideoResolve \/ VideoCatch)
    /\ WF_vars(VideoWake)
    /\ WF_vars(VideoSleepOver)
    /\ WF_vars(VideoFetched)

\* the submit or a poll of the job has been answered done
DoneReceived(v) ==
    \/ \E k \in DOMAIN v.submitted : v.submitted[k].done
    \/ \E k \in DOMAIN v.answers : v.answers[k].done

-----------------------------------------------------------------------------
(* More claims about the video job of a scene card, checked under SpecVideo *)

-----------------------------------------------------------------------------
(* SpecPage: the page after an analysis of one scene, with the style chosen: *)
(* the CharacterSheet, whose cards generate portraits, and the Timeline with *)
(* the SceneCard of the scene, its frame workflow and its video job.         *)

\* the scene list of the analysis: one scene
OneScene == [isArray |-> TRUE, items |-> <<TheScene>>]

InitPage ==
    /\ script = <<"\n", "INT.", " ", "CAFE", " ">>
    /\ scenes = OneScene
    /\ characters = TheCatalog
    /\ selectedStyle = STYLES[1]
    /\ isLoading = FALSE
    /\ appError = <<>>
    /\ run = 1
    /\ tasks = <<>>
    /\ joined = FALSE
    /\ stale = {}
    /\ card = CardInit(BasePrompt(TheScene, characters.items, selectedStyle))
    /\ op = NoOp
    /\ sent = NoneSent
    /\ video = NoJob
    /\ other = <<>>
    /\ sheet = MountSheet(characters, selectedStyle)
    /\ portraits = <<>>
    /\ plog = NoLog
    /\ IdleRetry

\* the bound on the portrait generations started on the page
MaxPageCalls == 1

\* the button Generate / Regenerate of a character card (disabled while
\* isLoading): handleGeneratePortrait up to its await
PageGeneratePortrait ==
    /\ Len(plog.started) < MaxPageCalls
    /\ \E n \in DOMAIN sheet :
          /\ ~sheet[n].isLoading
          /\ LET x == BeginPortrait(sheet, run, n, characters.items[n], selectedStyle,
                                    Len(plog.started) + 1)
             IN /\ sheet' = x.sheet
                /\ portraits' = Append(portraits, x.call)
                /\ plog' = [plog EXCEPT
                              !.started = Append(@, <<run, characters.items[n].name>>)]
    /\ UNCHANGED <<characters, selectedStyle, appVars, retryVars, sceneVars, other>>

\* a portrait request is through: the state of the character card and of the
\* App, and the SceneCard's effect that derives the prompts again when the
\* catalog it is given makes another base prompt
PagePortraitStep(k, x) ==
    /\ sheet' = x.sheet
    /\ characters' = x.characters
    /\ plog' = x.plog
    /\ portraits' = RemoveAt(portraits, k)
    /\ card' = PromptsEffect(card,
                             BasePrompt(TheScene, characters.items, selectedStyle),
                             BasePrompt(TheScene, characters'.items, selectedStyle))
    /\ UNCHANGED <<op, sent, video, selectedStyle, appVars, retryVars, other>>

\* the image model answers a portrait request
PagePortraitResolve ==
    \E k \in DOMAIN portraits :
        /\ portraits[k].w.pc = "call"
        /\ \E parts \in TimelineResponses :
              LET o == [portraits[k] EXCEPT !.w = WReturn(@, parts)] IN
              IF FirstImage(parts) # NoImage
              THEN PagePortraitStep(k, PortraitSucceeded(sheet, characters, plog, run, o,
                                                         FirstImage(parts)))
              ELSE PagePortraitStep(k, PortraitFailed(sheet, characters, plog, run, o,
                                                      NoImageError))

\* the remote image call of a portrait request fails
PagePortraitCatch ==
    \E k \in DOMAIN portraits :
        /\ portraits[k].w.pc = "call"
        /\ \E thrown \in TimelineThrowables, j \in SomeJitter :
              LET w1 == WCatch(portraits[k].w, thrown, j, DefaultInitialDelay)
                  o == [portraits[k] EXCEPT !.w = w1]
              IN /\ w1.pc = "thrown"
                 /\ PagePortraitStep(k, PortraitFailed(sheet, characters, plog, run, o,
                                                       w1.error))

NextPage ==
    \/ TimelineGenerateImages
    \/ TimelineRegenerateStart
    \/ TimelineRegenerateEnd
    \/ TimelineFrameResolve
    \/ TimelineFrameCatch
    \/ TimelineGenerateVideo
    \/ TimelineVideoResolve
    \/ TimelineVideoCatch
    \/ TimelineVideoFetched
    \/ PageGeneratePortrait
    \/ PagePortraitResolve
    \/ PagePortraitCatch

SpecPage == InitPage /\ [][NextPage]_vars

-----------------------------------------------------------------------------
(* Claims about the page, checked under SpecPage *)

\* the loading flag of the frame an image call is made for
Generating(c, kind) ==
    IF kind = "start" THEN c.isGeneratingStartFrame ELSE c.isGeneratingEndFrame

\* C29: a failed image generation for a frame or a portrait leaves the
\* existing image of that slot, both frame prompts, the sibling frame and the
\* video state unchanged and only sets the error message; on every completion
\* path (success or failure) the slot's loading flag is cleared.
C29_FailureKeepsImages ==
    [][/\ (TimelineFrameResolve \/ TimelineFrameCatch) =>
            /\ Generating(card, op.kind)
            /\ ~Generating(card', op.kind)
            /\ (card'.error # <<>> /\ card'.error # card.error) =>
                  /\ card'.error[1] = (IF op.kind = "start"
                                       THEN "Failed to generate start frame: "
                                       ELSE "Failed to generate end frame: ")
                  /\ card'.startFrame = card.startFrame
                  /\ card'.endFrame = card.endFrame
                  /\ card'.videoState = card.videoState
                  /\ ~IsAnyImageLoading(card')
                  /\ op' = NoOp
                  /\ video' = video
                  /\ characters' = characters /\ sheet' = sheet
       /\ (PagePortraitResolve \/ PagePortraitCatch) =>
            \E k \in DOMAIN portraits :
                LET n == portraits[k].n IN
                /\ portraits' = RemoveAt(portraits, k)
                /\ sheet[n].isLoading
                /\ ~sheet'[n].isLoading
                /\ (sheet'[n].error # <<>> /\ sheet'[n].error # sheet[n].error) =>
                      /\ sheet'[n].error[1] = "Image generation failed: "
                      /\ sheet'[n].imageUrl = sheet[n].imageUrl
                      /\ characters' = characters
                      /\ card' = card /\ op' = op /\ video' = video
      ]_vars

\* the regeneration of the start frame failed on a card that has both frames
\* and a video, and the portrait generation of the third character, who has a
\* portrait, failed: the images and the video are there
C29_Witness ==
    /\ card.error # <<>> /\ card.error[1] = "Failed to generate start frame: "
    /\ card.startFrame.imageUrl # NoImage
    /\ card.endFrame.imageUrl # NoImage
    /\ card.videoState.status = "DONE"
    /\ ~IsAnyImageLoading(card)
    /\ sheet[3].error # <<>> /\ ~sheet[3].isLoading
    /\ sheet[3].imageUrl = PortraitCy
    /\ characters.items[3].imageUrl = PortraitCy

-----------------------------------------------------------------------------
(* A claim about the messages of the video job, checked under SpecVideo *)

\* C30: every error message surfaced by a caller (script analysis, start
\* frame, end frame, portrait, video) is prefixed with the name of the
\* operation that failed and carries the message produced by
\* getApiErrorMessage for the underlying failure: when the video job fails,
\* the card's error is a prefix followed by getApiErrorMessage of what
\* generateVideoForScene threw (the claim as stated; handleGenerateVideo
\* shows the thrown error's own message followed by a fixed sentence).
C30_PrefixedApiMessage ==
    [][(video.pc # "rejected" /\ video'.pc = "rejected") =>
          LET thrown == {NoLinkError, DownloadError, NetworkError}
                            \cup (IF video'.w.pc = "thrown" THEN {video'.w.error} ELSE {})
          IN /\ Len(card'.error) = 2
             /\ \E err \in thrown : card'.error[2] = GetApiErrorMessage(err)
             /\ \A err \in thrown : card'.error[1] # err.message.raw
      ]_vars

-----------------------------------------------------------------------------
(* A claim about the extractions, checked under SpecAnalyze *)

\* the fields a record of extraction k is required to carry
RequiredFields(k) ==
    IF k = "scenes"
    THEN {"scene_id", "location", "time", "mood", "characters", "camera_movement"}
    ELSE {"name", "description"}

\* C31: when parseScriptToScenes succeeds it returns the records of the
\* model's JSON array in the same order and number, each carrying all six
\* required fields; a response that is valid JSON but not an array of such
\* records makes it fail like a parse failure; the same holds for
\* extractCharactersFromScript with the fields name and description (the
\* claim as stated; the functions return whatever JSON.parse returns).
C31_ArrayOfRecordsOrFailure ==
    \A k \in Kinds :
        LET t == tasks[k] IN
        /\ t.st = "fulfilled" =>
              /\ t.value = t.w.result.value
              /\ t.value.isArray
              /\ \A n \in DOMAIN t.value.items :
                    RequiredFields(k) \subseteq DOMAIN t.value.items[n]
        /\ (t.w.pc = "returned" /\ t.w.result.parses /\ ~t.w.result.value.isArray) =>
              (t.st = "rejected" /\ t.error = ParseError(k))

-----------------------------------------------------------------------------
(* More claims about the page, checked under SpecPage *)

\* C32: through the scene card's controls a video job can be started only when
\* both the start and the end frame have images and the video state is Idle;
\* no transition leads back to Idle, so at most one video job is ever
\* submitted per scene card, and a scene with only a start frame image cannot
\* start one.
C32_OneVideoJobPerCard ==
    /\ [][/\ (video'.pc = "submit" /\ video.pc # "submit") =>
                /\ card.startFrame.imageUrl # NoImage
                /\ card.endFrame.imageUrl # NoImage
                /\ card.videoState.status = "IDLE"
                /\ video = NoJob
          /\ video # NoJob => video' # NoJob
          /\ card.videoState.status # "IDLE" => card'.videoState.status # "IDLE"
         ]_vars
    /\ [](/\ (card.videoState.status = "IDLE") = (video = NoJob)
          /\ (card.startFrame.imageUrl # NoImage /\ card.endFrame.imageUrl = NoImage) =>
                (video = NoJob /\ ~ENABLED TimelineGenerateVideo))

\* the card's video job has failed, and with both images there no other job
\* can be started
C32_Witness ==
    /\ video.pc = "rejected"
    /\ card.videoState.status = "ERROR"
    /\ card.startFrame.imageUrl # NoImage
    /\ card.endFrame.imageUrl # NoImage
    /\ ~IsAnyImageLoading(card)
    /\ ~ENABLED TimelineGenerateVideo

-----------------------------------------------------------------------------
(* A claim about calls that outlive an analysis, checked under SpecPortrait *)

\* C33: a portrait generation or upload that was started for a character of
\* one script analysis never changes the character catalog produced by a later
\* analysis: if it completes after a re-analysis, no record of the new catalog
\* (including one with the same name) has its description or portrait replaced
\* by it (the claim as stated; the update is applied by name to whatever
\* catalog the App holds).
C33_OldCallsLeaveNewCatalog ==
    [][(plog'.updates # plog.updates /\ plog.started[plog'.seq][1] # run) =>
          characters' = characters]_vars

-----------------------------------------------------------------------------
(* SpecCast: the scene card of SpecScene over a catalog of the analysis that *)
(* holds two entries whose names differ only in case.                       *)

\* a catalog with al and Al, and Bo
CaseCatalog ==
    [isArray |-> TRUE,
     items |-> <<CharacterOf(1, Nameal), CharacterOf(1, NameAl), CharacterOf(1, NameBo)>>]

InitCast ==
    /\ characters = CaseCatalog
    /\ selectedStyle = STYLES[1]
    /\ card = CardInit(BasePrompt(TheScene, characters.items, selectedStyle))
    /\ op = NoOp
    /\ sent = NoneSent
    /\ video = NoJob
    /\ IdleRetry /\ IdleApp /\ IdleSheet

SpecCast == InitCast /\ [][NextScene]_vars

\* the catalog entries a prompt describes as looking like the provided image
\* reference
DescribedByReference(prompt) ==
    { n \in DOMAIN characters.items :
        Contains(prompt, characters.items[n].name \o <<" ", "who", " ", "looks">>) }

\* the catalog entries whose portrait is in a list of conditioning images
SuppliedAsImage(images) ==
    { n \in DOMAIN characters.items :
        /\ characters.items[n].imageUrl # NoImage
        /\ \E k \in DOMAIN images :
              images[k] = InlinePart(GetBase64Data(characters.items[n].imageUrl)) }

\* C34: for every scene whose frame prompts are the auto-derived ones, the set
\* of characters described in the prompt as matching the provided image
\* reference equals the set of characters whose portraits are supplied as
\* conditioning images for that scene's frames, for any catalog, including
\* catalogs with several entries whose names differ only in case (the claim as
\* stated; the prompt takes the first entry of a name, the images every one).
C34_DescribedAreSupplied ==
    [][(op.kind = "none" /\ op'.kind = "start"
          /\ card.startFrame.prompt =
                StartPrompt(BasePrompt(TheScene, characters.items, selectedStyle), TheScene))
        => DescribedByReference(card.startFrame.prompt) = SuppliedAsImage(op'.images)
      ]_vars

-----------------------------------------------------------------------------
(* A claim about the combined workflow, checked under SpecPage *)

\* C35: during the combined workflow the scene is busy without interruption
\* from the start of start-frame generation until end-frame generation has
\* settled: there is no intermediate state, between the start frame settling
\* and the end frame starting, in which both loading flags are false and
\* another frame generation or a video job can be started.  While a call of
\* the workflow is in flight the flag of its frame is set and no frame
\* generation can be started; the step in which the start frame settles with
\* an image is the step in which the end frame's call starts; and with both
\* flags false no call is in flight.
C35_BusyThroughCombinedWorkflow ==
    /\ [](/\ op.kind # "none" =>
                /\ Generating(card, op.kind)
                /\ IsBusy(card)
                /\ ~ENABLED TimelineGenerateImages
                /\ ~ENABLED TimelineRegenerateStart
                /\ ~ENABLED TimelineRegenerateEnd
          /\ ~IsAnyImageLoading(card) => op = NoOp)
    /\ [][(op.kind = "start" /\ op.combined /\ TimelineFrameResolve
             /\ card'.startFrame.imageUrl # card.startFrame.imageUrl) =>
                /\ op'.kind = "end" /\ op'.combined
                /\ ~card'.isGeneratingStartFrame
                /\ card'.isGeneratingEndFrame
                /\ op'.images[1] = InlinePart(GetBase64Data(card'.startFrame.imageUrl))
         ]_vars

\* the end frame of a combined workflow is being generated on a card whose
\* start frame has just got its image
C35_Witness ==
    /\ op.kind = "end" /\ op.combined /\ op.w.pc = "call"
    /\ card.startFrame.imageUrl # NoImage
    /\ card.endFrame.imageUrl = NoImage
    /\ card.isGeneratingEndFrame /\ ~card.isGeneratingStartFrame
    /\ card.videoState.status = "IDLE"

-----------------------------------------------------------------------------
(* SpecEdit: the prompts of the scene card of SpecScene under edits, style   *)
(* changes, portraits and the combined workflow, and the CharacterCard of    *)
(* Cy, who is not in the scene, attaching another portrait.                  *)

\* the CharacterCard of the third entry attaches a portrait:
\* onUpdateCharacter({...character, imageUrl}), and the card's effect on the
\* new catalog
UpdateUnlisted ==
    /\ characters.items[3].imageUrl # PortraitPng
    /\ characters' =
          HandleUpdateCharacter(characters, [characters.items[3] EXCEPT !.imageUrl = PortraitPng])
    /\ card' = PromptsEffect(card,
                             BasePrompt(TheScene, characters.items, selectedStyle),
                             BasePrompt(TheScene, characters'.items, selectedStyle))
    /\ UNCHANGED <<op, sent, video, selectedStyle, retryVars, sheetVars, other, appVars>>

NextEdit ==
    \/ ClickGenerateImages
    \/ EditStartPrompt
    \/ EditEndPrompt
    \/ FrameResolve
    \/ UpdateCharacter
    \/ SceneSelectStyle
    \/ UpdateUnlisted

SpecEdit == InitScene /\ [][NextEdit]_vars

\* C36: a frame's prompt text changes only by a user edit of that frame or by
\* a reset to the auto-derived prompt, and the reset happens exactly when the
\* scene's base prompt text changes (by a style change, or by a portrait
\* attached to a character listed on the scene), resetting both frames'
\* prompts and discarding user edits; attaching a portrait to a character not
\* listed on the scene leaves the prompts, edited or not, unchanged, and no
\* reset ever changes a frame's image.
C36_PromptsChangeByEditOrReset ==
    [][LET base == BasePrompt(TheScene, characters.items, selectedStyle)
           newBase == BasePrompt(TheScene, characters'.items, selectedStyle')
           startChanged == card'.startFrame.prompt # card.startFrame.prompt
           endChanged == card'.endFrame.prompt # card.endFrame.prompt
       IN /\ newBase # base =>
                /\ SceneSelectStyle \/ UpdateCharacter
                /\ card'.startFrame.prompt = StartPrompt(newBase, TheScene)
                /\ card'.endFrame.prompt = EndPrompt(newBase)
                /\ card'.startFrame.imageUrl = card.startFrame.imageUrl
                /\ card'.endFrame.imageUrl = card.endFrame.imageUrl
          /\ (newBase = base /\ startChanged) =>
                (EditStartPrompt /\ ~endChanged /\ card'.startFrame.prompt \in UserPrompts)
          /\ (newBase = base /\ endChanged) =>
                (EditEndPrompt /\ ~startChanged /\ card'.endFrame.prompt \in UserPrompts)
          /\ UpdateUnlisted => (newBase = base /\ card' = card)
      ]_vars

\* Cy, who is not in the scene, has another portrait, and the start prompt the
\* user typed is there; the end prompt was derived after al got a portrait,
\* and the start frame has its image
C36_Witness ==
    /\ characters.items[3].imageUrl = PortraitPng
    /\ characters.items[1].imageUrl # NoImage
    /\ card.startFrame.prompt \in UserPrompts
    /\ card.endFrame.prompt = EndPrompt(BasePrompt(TheScene, characters.items, selectedStyle))
    /\ card.startFrame.imageUrl # NoImage

====
